---- MODULE Spec2Model ----
(***************************************************************************)
(* Verification core of rhombus-tech/vm: the batch conflict verifier       *)
(* (src/verifier/batch.go), the single-action state verifier it delegates  *)
(* to (src/unnamed/part_010, the revision with delete / code-change        *)
(* actions), the attestation-pair verifier (src/unnamed/part_009), the      *)
(* region actions (src/unnamed/part_006), the TEE execution action with    *)
(* its Roughtime stamp quorum (src/unnamed/part_005), the Code Format      *)
(* Validator (src/unnamed/part_002, src/vm/validator.go), the object       *)
(* handlers (src/actions/handler.go) and the state keys (src/storage).     *)
(***************************************************************************)
EXTENDS Integers, Sequences, FiniteSets, TLC

(***************************************************************************)
(* Bounds of the model.                                                    *)
(***************************************************************************)
\* longest batch of the general family
MaxLen == 3
\* longest batch of the family with oversized payloads
MaxSizedLen == 2
\* longest batch of the event-routing family
MaxRouteLen == 3

(***************************************************************************)
(* Program constants.                                                      *)
(***************************************************************************)
MaxBatchSize == 256
MaxCodeSize == 1024 * 1024
MaxStorageSize == 1024 * 1024

\* error values (Nil is Go's nil error)
Nil == "nil"
ErrBatchLimit == "ErrBatchLimit"
ErrDuplicateAction == "ErrDuplicateAction"
ErrConflictingAction == "ErrConflictingAction"
ErrCircularDependency == "ErrCircularDependency"
ErrInvalidEventOrder == "ErrInvalidEventOrder"
ErrObjectExists == "ErrObjectExists"
ErrObjectNotFound == "ErrObjectNotFound"
ErrCodeTooLarge == "ErrCodeTooLarge"
ErrStorageTooLarge == "ErrStorageTooLarge"
ErrUnknownActionType == "unknown action type"

\* kinds of action (the dynamic type of a chain.Action)
CreateObject == "CreateObject"
DeleteObject == "DeleteObject"
ChangeObjectCode == "ChangeObjectCode"
ChangeObjectStorage == "ChangeObjectStorage"
SetInputObject == "SetInputObject"
SendEvent == "SendEvent"

VARIABLES
    objects,              \* ids of the objects stored in the state snapshot
    batch,                \* the actions handed to VerifyBatch
    pc,                   \* position of the VerifyBatch call
    idx,                  \* index of the action the current pass is at
    objectModifications,  \* bv.objectModifications
    eventQueue,           \* bv.eventQueue
    result,               \* the error VerifyBatch returned
    failPhase,            \* the pass that returned the error
    stateReads,           \* number of storage.GetObject calls of this call
    regions,              \* the stored regions: region id -> its TEE list
    action,               \* the action handed to VerifyStateTransition
    calls,                \* the VerifyBatch calls made on one BatchVerifier
    inputObject,          \* the stored input-object designation
    queuedEvents,         \* the stored event queue
    state,                \* the key-value state behind state.Manager
    blockTime,            \* ctx.Time() of the block under execution
    medianTime,           \* medianTime of TEEExecAction.Execute
    revision,             \* the StateVerifier revision that is built
    cv,                   \* the CodeValidator
    code                  \* the code blob handed to ValidateCode

\* the variables of the batch and single-action verifiers
coreVars == <<objects, batch, pc, idx, objectModifications, eventQueue,
              result, failPhase, stateReads, regions, action>>

\* the variables of the other entry points
extVars == <<calls, inputObject, queuedEvents, state, blockTime, medianTime,
            revision, cv, code>>

\* what a handler other than the verifiers leaves alone, pc and result apart
coreVarsButPcResult ==
    <<objects, batch, idx, objectModifications, eventQueue, failPhase,
      stateReads, regions, action>>

vars == <<coreVars, extVars>>

(***************************************************************************)
(* Actions of a batch.  ID is the object id (IDTo for a SendEvent),        *)
(* CodeLen / DataLen the lengths of the code and of the storage or         *)
(* parameter bytes.                                                        *)
(***************************************************************************)
CreateObjectAction(id, codeLen, storageLen) ==
    [kind |-> CreateObject, ID |-> id, Priority |-> 0, FunctionCall |-> "",
     CodeLen |-> codeLen, DataLen |-> storageLen]

DeleteObjectAction(id) ==
    [kind |-> DeleteObject, ID |-> id, Priority |-> 0, FunctionCall |-> "",
     CodeLen |-> 0, DataLen |-> 0]

ChangeObjectCodeAction(id, codeLen) ==
    [kind |-> ChangeObjectCode, ID |-> id, Priority |-> 0, FunctionCall |-> "",
     CodeLen |-> codeLen, DataLen |-> 0]

ChangeObjectStorageAction(id, storageLen) ==
    [kind |-> ChangeObjectStorage, ID |-> id, Priority |-> 0,
     FunctionCall |-> "", CodeLen |-> 0, DataLen |-> storageLen]

SetInputObjectAction(id) ==
    [kind |-> SetInputObject, ID |-> id, Priority |-> 0, FunctionCall |-> "",
     CodeLen |-> 0, DataLen |-> 0]

SendEventAction(priority, idTo, functionCall, paramLen) ==
    [kind |-> SendEvent, ID |-> idTo, Priority |-> priority,
     FunctionCall |-> functionCall, CodeLen |-> 0, DataLen |-> paramLen]

\* modificationInfo, one field set
modificationInfo(created, deleted, codeChange) ==
    [created |-> created, deleted |-> deleted, codeChange |-> codeChange,
     storage |-> FALSE]

eventInfo(priority, functionCall) ==
    [priority |-> priority, functionCall |-> functionCall]

\* m[k] = v for a Go map held as a function over the keys present
MapSet(m, k, v) ==
    [x \in DOMAIN m \cup {k} |-> IF x = k THEN v ELSE m[x]]

EmptyMap == [x \in {} |-> 0]

\* no single action under verification
NoAction == [kind |-> "none"]

(***************************************************************************)
(* analyzeActions, one iteration of its loop: the error it returns at this *)
(* action (Nil to go on) and the tracking maps after it.                   *)
(***************************************************************************)
analyzeCreate(a, mods) ==
    LET exists == a.ID \in DOMAIN mods IN
    IF exists /\ mods[a.ID].created THEN ErrDuplicateAction
    ELSE IF exists /\ mods[a.ID].deleted THEN ErrConflictingAction
    ELSE Nil

\* analyzeDelete without the check of info.created
analyzeDelete_IgnoresCreated(a, mods) ==
    LET exists == a.ID \in DOMAIN mods IN
    IF exists /\ mods[a.ID].deleted THEN ErrDuplicateAction
    ELSE IF exists /\ (mods[a.ID].codeChange \/ mods[a.ID].storage)
         THEN ErrConflictingAction
    ELSE Nil

analyzeDelete(a, mods) ==
    LET exists == a.ID \in DOMAIN mods IN
    IF exists /\ mods[a.ID].deleted THEN ErrDuplicateAction
    ELSE IF exists /\ (mods[a.ID].created \/ mods[a.ID].codeChange
                        \/ mods[a.ID].storage)
         THEN ErrConflictingAction
    ELSE Nil

\* analyzeChangeCode without the check of info.deleted
analyzeChangeCode_IgnoresDeleted(a, mods) ==
    LET exists == a.ID \in DOMAIN mods IN
    IF exists /\ mods[a.ID].codeChange THEN ErrDuplicateAction
    ELSE Nil

analyzeChangeCode(a, mods) ==
    LET exists == a.ID \in DOMAIN mods IN
    IF exists /\ mods[a.ID].codeChange THEN ErrDuplicateAction
    ELSE IF exists /\ mods[a.ID].deleted THEN ErrConflictingAction
    ELSE Nil

\* analyzeSendEvent comparing with the last queued event only
analyzeSendEvent_LastOnly(a, queue) ==
    LET events == IF a.ID \in DOMAIN queue THEN queue[a.ID] ELSE <<>> IN
    IF Len(events) > 0 /\ events[Len(events)].priority = a.Priority
    THEN ErrDuplicateAction
    ELSE Nil

analyzeSendEvent(a, queue) ==
    LET events == IF a.ID \in DOMAIN queue THEN queue[a.ID] ELSE <<>> IN
    IF \E i \in 1..Len(events) : events[i].priority = a.Priority
    THEN ErrDuplicateAction
    ELSE Nil

analyzeErr(a, mods, queue) ==
    CASE a.kind = CreateObject -> analyzeCreate(a, mods)
      [] a.kind = DeleteObject -> analyzeDelete(a, mods)
      [] a.kind = ChangeObjectCode -> analyzeChangeCode(a, mods)
      [] a.kind = SendEvent -> analyzeSendEvent(a, queue)
      [] OTHER -> Nil

analyzeMods(a, mods) ==
    CASE a.kind = CreateObject ->
            MapSet(mods, a.ID, modificationInfo(TRUE, FALSE, FALSE))
      [] a.kind = DeleteObject ->
            MapSet(mods, a.ID, modificationInfo(FALSE, TRUE, FALSE))
      [] a.kind = ChangeObjectCode ->
            MapSet(mods, a.ID, modificationInfo(FALSE, FALSE, TRUE))
      [] OTHER -> mods

analyzeQueue(a, queue) ==
    IF a.kind = SendEvent
    THEN MapSet(queue, a.ID,
                Append(IF a.ID \in DOMAIN queue THEN queue[a.ID] ELSE <<>>,
                       eventInfo(a.Priority, a.FunctionCall)))
    ELSE queue

(***************************************************************************)
(* StateVerifier.VerifyStateTransition on one action against the snapshot. *)
(***************************************************************************)
VerifyObjectState(codeLen, storageLen) ==
    IF codeLen > MaxCodeSize THEN ErrCodeTooLarge
    ELSE IF storageLen > MaxStorageSize THEN ErrStorageTooLarge
    ELSE Nil

verifySuperObjectCaller == Nil

verifyFunctionExists(function) == Nil

verifyCreateObject(a, objs) ==
    IF a.ID \in objs THEN ErrObjectExists
    ELSE VerifyObjectState(a.CodeLen, a.DataLen)

verifyDeleteObject(a, objs) ==
    IF verifySuperObjectCaller # Nil THEN verifySuperObjectCaller
    ELSE IF a.ID \notin objs THEN ErrObjectNotFound
    ELSE Nil

verifyChangeCode(a) ==
    IF verifySuperObjectCaller # Nil THEN verifySuperObjectCaller
    ELSE IF a.CodeLen > MaxCodeSize THEN ErrCodeTooLarge
    ELSE Nil

verifyChangeStorage(a) ==
    IF a.DataLen > MaxStorageSize THEN ErrStorageTooLarge ELSE Nil

verifySetInputObject(a, objs) ==
    IF verifySuperObjectCaller # Nil THEN verifySuperObjectCaller
    ELSE IF a.ID \notin objs THEN ErrObjectNotFound
    ELSE Nil

VerifyEvent(a, objs) ==
    IF a.ID \notin objs THEN ErrObjectNotFound
    ELSE IF verifyFunctionExists(a.FunctionCall) # Nil
         THEN verifyFunctionExists(a.FunctionCall)
    ELSE IF a.DataLen > MaxStorageSize THEN ErrStorageTooLarge
    ELSE Nil

VerifyStateTransition(a, objs) ==
    CASE a.kind = CreateObject -> verifyCreateObject(a, objs)
      [] a.kind = DeleteObject -> verifyDeleteObject(a, objs)
      [] a.kind = ChangeObjectCode -> verifyChangeCode(a)
      [] a.kind = ChangeObjectStorage -> verifyChangeStorage(a)
      [] a.kind = SetInputObject -> verifySetInputObject(a, objs)
      [] a.kind = SendEvent -> VerifyEvent(a, objs)
      [] OTHER -> ErrUnknownActionType

\* the storage.GetObject calls VerifyStateTransition makes for an action
ReadsOf(a) ==
    IF a.kind \in {CreateObject, DeleteObject, SetInputObject, SendEvent}
    THEN 1 ELSE 0

(***************************************************************************)
(* The batch-context checks of the per-action pass.                        *)
(***************************************************************************)
verifyCreateInBatch(a, mods) ==
    IF a.ID \in DOMAIN mods /\ mods[a.ID].deleted
    THEN ErrConflictingAction ELSE Nil

verifyDeleteInBatch(a, queue) ==
    IF a.ID \in DOMAIN queue /\ Len(queue[a.ID]) > 0
    THEN ErrConflictingAction ELSE Nil

verifyCodeChangeInBatch(a, mods) ==
    IF a.ID \in DOMAIN mods
       /\ (mods[a.ID].deleted
           \/ (mods[a.ID].created /\ mods[a.ID].codeChange))
    THEN ErrConflictingAction ELSE Nil

verifyEventInBatch(a, mods) ==
    IF a.ID \in DOMAIN mods /\ mods[a.ID].deleted
    THEN ErrConflictingAction ELSE Nil

verifyAction(a, objs, mods, queue) ==
    LET err == VerifyStateTransition(a, objs) IN
    IF err # Nil THEN err
    ELSE CASE a.kind = CreateObject -> verifyCreateInBatch(a, mods)
           [] a.kind = DeleteObject -> verifyDeleteInBatch(a, queue)
           [] a.kind = ChangeObjectCode -> verifyCodeChangeInBatch(a, mods)
           [] a.kind = SendEvent -> verifyEventInBatch(a, mods)
           [] OTHER -> Nil

(***************************************************************************)
(* Global batch constraints: verifyNoEventCycles walks the keys of         *)
(* bv.eventQueue (Go leaves the order of a map range open: order is any    *)
(* permutation of the keys) and calls dfsEventCycle on each.  The loop of  *)
(* dfsEventCycle over the queued events has an empty body, so no edge is   *)
(* followed.                                                               *)
(***************************************************************************)
dfsEventCycle(objectID, visited, path) ==
    IF objectID \in path
    THEN [err |-> ErrCircularDependency, visited |-> visited, path |-> path]
    ELSE IF objectID \in visited
    THEN [err |-> Nil, visited |-> visited, path |-> path]
    ELSE [err |-> Nil,
          visited |-> visited \cup {objectID},
          path |-> (path \cup {objectID}) \ {objectID}]

RECURSIVE cyclesFrom(_, _, _, _)
cyclesFrom(order, i, visited, path) ==
    IF i > Len(order) THEN Nil
    ELSE LET r == dfsEventCycle(order[i], visited, path) IN
         IF r.err # Nil THEN r.err
         ELSE cyclesFrom(order, i + 1, r.visited, r.path)

verifyNoEventCycles(order) == cyclesFrom(order, 1, {}, {})

verifyBatchResources == Nil

verifyBatchConstraints(order) ==
    IF verifyNoEventCycles(order) # Nil THEN verifyNoEventCycles(order)
    ELSE IF verifyBatchResources # Nil THEN verifyBatchResources
    ELSE Nil

\* the orders in which a range over the keys of a map may visit them
KeyOrders(m) ==
    {o \in [1..Cardinality(DOMAIN m) -> DOMAIN m] :
        \A i, j \in DOMAIN o : i # j => o[i] # o[j]}

(***************************************************************************)
(* The batches and snapshots the model starts from.                        *)
(***************************************************************************)
Ids == {"a", "b"}
RouteIds == {"a", "b", "c"}
Priorities == {1, 2}
\* a function call of a target's code and the object it emits an event to
EmitsTo == [emit_a |-> "a", emit_b |-> "b", emit_c |-> "c"]
TooLarge == MaxCodeSize + 1

SeqsUpTo(S, n) == UNION {[1..k -> S] : k \in 0..n}

\* every kind of action, payloads within the size limits
GeneralActions ==
    {CreateObjectAction(id, 1, 1) : id \in Ids}
    \cup {DeleteObjectAction(id) : id \in Ids}
    \cup {ChangeObjectCodeAction(id, 1) : id \in Ids}
    \cup {ChangeObjectStorageAction(id, 1) : id \in Ids}
    \cup {SetInputObjectAction(id) : id \in Ids}
    \cup {SendEventAction(p, id, "f", 1) : p \in Priorities, id \in Ids}

\* the same with code, storage or parameters over the limit
SizedActions ==
    GeneralActions
    \cup {CreateObjectAction(id, TooLarge, 1) : id \in Ids}
    \cup {CreateObjectAction(id, 1, TooLarge) : id \in Ids}
    \cup {ChangeObjectCodeAction(id, TooLarge) : id \in Ids}
    \cup {ChangeObjectStorageAction(id, TooLarge) : id \in Ids}
    \cup {SendEventAction(p, id, "f", TooLarge) : p \in Priorities, id \in Ids}

\* events whose function calls declare a routing between three objects
RouteActions ==
    {SendEventAction(1, r[1], r[2], 1) :
        r \in {q \in RouteIds \X DOMAIN EmitsTo : EmitsTo[q[2]] # q[1]}}

\* the k-th event of a routing batch carries priority k
RouteBatches ==
    {[i \in DOMAIN s |-> [s[i] EXCEPT !.Priority = i]] :
        s \in SeqsUpTo(RouteActions, MaxRouteLen)}

\* batches at and just over the size limit, every action valid alone
LongBatches ==
    UNION {{[i \in 1..n |-> ChangeObjectStorageAction("a", 1)],
            [i \in 1..n |-> SendEventAction(i, "a", "f", 1)]} :
           n \in {MaxBatchSize, MaxBatchSize + 1}}

\* no CodeValidator is in use
ValIdle == cv = [maxSize |-> 0] /\ code = <<>>

\* the other entry points are not in use
ExtIdle ==
    /\ calls = <<>>
    /\ inputObject = ""
    /\ queuedEvents = <<>>
    /\ state = EmptyMap
    /\ blockTime = 0
    /\ medianTime = 0
    /\ revision = "part_009"
    /\ ValIdle

Init ==
    /\ \/ /\ objects \in SUBSET Ids
          /\ batch \in SeqsUpTo(GeneralActions, MaxLen)
       \/ /\ objects \in SUBSET Ids
          /\ batch \in SeqsUpTo(SizedActions, MaxSizedLen)
       \/ /\ objects = RouteIds
          /\ batch \in RouteBatches
       \/ /\ objects = Ids
          /\ batch \in LongBatches
    /\ pc = "start"
    /\ idx = 0
    /\ objectModifications = EmptyMap
    /\ eventQueue = EmptyMap
    /\ result = "pending"
    /\ failPhase = "none"
    /\ stateReads = 0
    /\ regions = EmptyMap
    /\ action = NoAction
    /\ ExtIdle

(***************************************************************************)
(* VerifyBatch, step by step.                                              *)
(***************************************************************************)
\* the size check with >= for >
batchOverLimit_Inclusive(actions) == Len(actions) >= MaxBatchSize

\* len(actions) > MaxBatchSize
batchOverLimit(actions) == Len(actions) > MaxBatchSize

\* the size check and the reset of the tracking maps
VerifyBatch ==
    /\ pc = "start"
    /\ IF batchOverLimit(batch)
       THEN /\ result' = ErrBatchLimit
            /\ failPhase' = "limit"
            /\ pc' = "done"
            /\ UNCHANGED <<idx, objectModifications, eventQueue>>
       ELSE /\ objectModifications' = EmptyMap
            /\ eventQueue' = EmptyMap
            /\ idx' = 1
            /\ pc' = IF Len(batch) = 0 THEN "constraints" ELSE "analyze"
            /\ UNCHANGED <<result, failPhase>>
    /\ UNCHANGED <<objects, batch, stateReads, regions, action>>
    /\ UNCHANGED extVars

\* first pass: one iteration of the loop of analyzeActions
analyzeActions ==
    /\ pc = "analyze"
    /\ LET a == batch[idx]
           err == analyzeErr(a, objectModifications, eventQueue) IN
       IF err # Nil
       THEN /\ result' = err
            /\ failPhase' = "analyze"
            /\ pc' = "done"
            /\ UNCHANGED <<idx, objectModifications, eventQueue>>
       ELSE /\ objectModifications' = analyzeMods(a, objectModifications)
            /\ eventQueue' = analyzeQueue(a, eventQueue)
            /\ IF idx = Len(batch)
               THEN pc' = "verify" /\ idx' = 1
               ELSE pc' = pc /\ idx' = idx + 1
            /\ UNCHANGED <<result, failPhase>>
    /\ UNCHANGED <<objects, batch, stateReads, regions, action>>
    /\ UNCHANGED extVars

\* the second pass storing the object of every CreateObject it accepts
verifyActionStep_Applies ==
    /\ pc = "verify"
    /\ LET a == batch[idx]
           err == verifyAction(a, objects, objectModifications, eventQueue) IN
       /\ stateReads' = stateReads + ReadsOf(a)
       /\ objects' = IF err = Nil /\ a.kind = CreateObject
                     THEN objects \cup {a.ID} ELSE objects
       /\ IF err # Nil
          THEN /\ result' = err
               /\ failPhase' = "verify"
               /\ pc' = "done"
               /\ UNCHANGED idx
          ELSE /\ IF idx = Len(batch)
                  THEN pc' = "constraints" /\ idx' = idx
                  ELSE pc' = pc /\ idx' = idx + 1
               /\ UNCHANGED <<result, failPhase>>
    /\ UNCHANGED <<batch, objectModifications, eventQueue, regions, action>>
    /\ UNCHANGED extVars

\* second pass: one iteration of the loop over verifyAction
verifyActionStep ==
    /\ pc = "verify"
    /\ LET a == batch[idx]
           err == verifyAction(a, objects, objectModifications, eventQueue) IN
       /\ stateReads' = stateReads + ReadsOf(a)
       /\ IF err # Nil
          THEN /\ result' = err
               /\ failPhase' = "verify"
               /\ pc' = "done"
               /\ UNCHANGED idx
          ELSE /\ IF idx = Len(batch)
                  THEN pc' = "constraints" /\ idx' = idx
                  ELSE pc' = pc /\ idx' = idx + 1
               /\ UNCHANGED <<result, failPhase>>
    /\ UNCHANGED <<objects, batch, objectModifications, eventQueue, regions,
                   action>>
    /\ UNCHANGED extVars

\* the global constraints and the verdict
verifyBatchConstraintsStep ==
    /\ pc = "constraints"
    /\ \E order \in KeyOrders(eventQueue) :
         LET err == verifyBatchConstraints(order) IN
         /\ result' = err
         /\ failPhase' = IF err # Nil THEN "constraints" ELSE "none"
    /\ pc' = "done"
    /\ UNCHANGED <<objects, batch, idx, objectModifications, eventQueue,
                   stateReads, regions, action>>
    /\ UNCHANGED extVars

Next ==
    \/ VerifyBatch
    \/ analyzeActions
    \/ verifyActionStep
    \/ verifyBatchConstraintsStep

Spec == Init /\ [][Next]_vars

(***************************************************************************)
(* Single-action verification of the region revision of the StateVerifier  *)
(* (src/unnamed/part_009): attestation pairs are checked against a         *)
(* region's TEE list.                                                      *)
(***************************************************************************)
ErrInvalidAttestation == "ErrInvalidAttestation"
ErrAttestationMismatch == "ErrAttestationMismatch"
ErrTimestampOutOfRange == "ErrTimestampOutOfRange"
ErrRegionExists == "ErrRegionExists"
ErrRegionNotFound == "ErrRegionNotFound"
ErrInvalidTEE == "ErrInvalidTEE"

CreateRegion == "CreateRegion"
UpdateRegion == "UpdateRegion"

\* Signature names how the signature bytes were made: Signed is a signature
\* over Data by the key registered for EnclaveID, Forged is any other bytes
Signed == "signed"
Forged == "forged"

TEEAttestation(enclaveID, timestamp, data, signature) ==
    [EnclaveID |-> enclaveID, Timestamp |-> timestamp, Data |-> data,
     Signature |-> signature]

CreateRegionAction(regionID, tees, attestations) ==
    [kind |-> CreateRegion, RegionID |-> regionID, TEEs |-> tees,
     Attestations |-> attestations]

UpdateRegionAction(regionID, addTEEs, remTEEs, attestations) ==
    [kind |-> UpdateRegion, RegionID |-> regionID, AddTEEs |-> addTEEs,
     RemTEEs |-> remTEEs, Attestations |-> attestations]

RegionalSendEventAction(idTo, paramLen, attestations) ==
    [kind |-> SendEvent, ID |-> idTo, FunctionCall |-> "f",
     DataLen |-> paramLen, Attestations |-> attestations]

\* the elements of a Go slice
Elems(s) == {s[i] : i \in DOMAIN s}

isTimeInWindow(timestamp) == TRUE

extractRegionFromID(id) == ""

verifyAttestation(attestation, tees) ==
    IF attestation.EnclaveID \notin Elems(tees) THEN ErrInvalidAttestation
    ELSE IF ~isTimeInWindow(attestation.Timestamp)
         THEN ErrTimestampOutOfRange
    ELSE Nil

\* verifyAttestationPair verifying the first attestation only
verifyAttestationPair_FirstOnly(attestations, tees) ==
    IF verifyAttestation(attestations[1], tees) # Nil
    THEN verifyAttestation(attestations[1], tees)
    ELSE IF attestations[1].Timestamp # attestations[2].Timestamp
    THEN ErrInvalidAttestation
    ELSE IF attestations[1].Data # attestations[2].Data
    THEN ErrInvalidAttestation
    ELSE Nil

verifyAttestationPair(attestations, tees) ==
    IF verifyAttestation(attestations[1], tees) # Nil
    THEN verifyAttestation(attestations[1], tees)
    ELSE IF verifyAttestation(attestations[2], tees) # Nil
    THEN verifyAttestation(attestations[2], tees)
    ELSE IF attestations[1].Timestamp # attestations[2].Timestamp
    THEN ErrInvalidAttestation
    ELSE IF attestations[1].Data # attestations[2].Data
    THEN ErrInvalidAttestation
    ELSE Nil

verifyCreateRegion(a, regs) ==
    IF a.RegionID \in DOMAIN regs THEN ErrRegionExists
    ELSE IF \E i \in DOMAIN a.TEEs : a.TEEs[i] = "" THEN ErrInvalidTEE
    ELSE verifyAttestationPair(a.Attestations, a.TEEs)

\* UpdateRegionAction.Execute, the loop that removes one address: the first
\* entry equal to remTEE is cut out, an address that is absent changes nothing
removeTEE(currentTEEs, remTEE) ==
    IF \E i \in DOMAIN currentTEEs : currentTEEs[i] = remTEE
    THEN LET i == CHOOSE k \in DOMAIN currentTEEs :
                    /\ currentTEEs[k] = remTEE
                    /\ \A j \in 1..(k - 1) : currentTEEs[j] # remTEE
         IN SubSeq(currentTEEs, 1, i - 1)
            \o SubSeq(currentTEEs, i + 1, Len(currentTEEs))
    ELSE currentTEEs

RECURSIVE removeTEEs(_, _, _)
removeTEEs(currentTEEs, remTEEs, k) ==
    IF k > Len(remTEEs) THEN currentTEEs
    ELSE removeTEEs(removeTEE(currentTEEs, remTEEs[k]), remTEEs, k + 1)

\* the TEE list UpdateRegionAction.Execute stores
updatedTEEs(currentTEEs, a) ==
    removeTEEs(currentTEEs, a.RemTEEs, 1) \o a.AddTEEs

\* verifyUpdateRegion checking the pair against the list after the update
verifyUpdateRegion_PostUpdate(a, regs) ==
    IF a.RegionID \notin DOMAIN regs THEN ErrRegionNotFound
    ELSE IF verifyAttestationPair(a.Attestations,
                                  updatedTEEs(regs[a.RegionID], a)) # Nil
    THEN verifyAttestationPair(a.Attestations,
                               updatedTEEs(regs[a.RegionID], a))
    ELSE IF \E i \in DOMAIN a.AddTEEs : a.AddTEEs[i] = "" THEN ErrInvalidTEE
    ELSE Nil

verifyUpdateRegion(a, regs) ==
    IF a.RegionID \notin DOMAIN regs THEN ErrRegionNotFound
    ELSE IF verifyAttestationPair(a.Attestations, regs[a.RegionID]) # Nil
    THEN verifyAttestationPair(a.Attestations, regs[a.RegionID])
    ELSE IF \E i \in DOMAIN a.AddTEEs : a.AddTEEs[i] = "" THEN ErrInvalidTEE
    ELSE Nil

verifyEvent(a, objs, regs) ==
    IF a.ID \notin objs THEN ErrObjectNotFound
    ELSE IF extractRegionFromID(a.ID) \notin DOMAIN regs
    THEN ErrRegionNotFound
    ELSE IF verifyAttestationPair(a.Attestations,
                                  regs[extractRegionFromID(a.ID)]) # Nil
    THEN verifyAttestationPair(a.Attestations,
                               regs[extractRegionFromID(a.ID)])
    ELSE IF verifyFunctionExists(a.FunctionCall) # Nil
    THEN verifyFunctionExists(a.FunctionCall)
    ELSE IF a.DataLen > MaxStorageSize THEN ErrStorageTooLarge
    ELSE Nil

RegionVerifyStateTransition(a, objs, regs) ==
    CASE a.kind = CreateObject -> verifyCreateObject(a, objs)
      [] a.kind = SendEvent -> verifyEvent(a, objs, regs)
      [] a.kind = SetInputObject ->
            IF a.ID \notin objs THEN ErrObjectNotFound ELSE Nil
      [] a.kind = CreateRegion -> verifyCreateRegion(a, regs)
      [] a.kind = UpdateRegion -> verifyUpdateRegion(a, regs)
      [] OTHER -> ErrUnknownActionType

(***************************************************************************)
(* The actions and snapshots the region verifier is run on.                *)
(***************************************************************************)
RegionIDs == {"", "r1"}
Enclaves == {"t1", "t2", "t3"}
Timestamps == {"ts1", "ts2"}
DataValues == {"d1", "d2"}
TEELists == {<<>>, <<"t1", "t2">>, <<"t2", "t3">>, <<"t1", "">>}
StoredTEELists == {<<"t1", "t2">>, <<"t2", "t3">>}

Signatures == {Signed, Forged}

Attestations ==
    {TEEAttestation(e, t, d, g) :
        e \in Enclaves, t \in Timestamps, d \in DataValues, g \in Signatures}
AttestationPairs == [1..2 -> Attestations]

RegionActions ==
    {CreateRegionAction(r, t, p) :
        r \in RegionIDs, t \in TEELists, p \in AttestationPairs}
    \cup {UpdateRegionAction(r, x[1], x[2], p) :
            r \in RegionIDs, x \in TEELists \X {<<>>, <<"t1">>},
            p \in AttestationPairs}
    \cup {RegionalSendEventAction(id, n, p) :
            id \in {"a"}, n \in {1, TooLarge}, p \in AttestationPairs}
    \cup {CreateObjectAction(id, 1, 1) : id \in {"a"}}
    \cup {SetInputObjectAction(id) : id \in {"a"}}
    \cup {DeleteObjectAction(id) : id \in {"a"}}

RegionStores ==
    UNION {[d -> StoredTEELists] : d \in SUBSET RegionIDs}

InitRegion ==
    /\ objects \in SUBSET {"a"}
    /\ regions \in RegionStores
    /\ action \in RegionActions
    /\ pc = "verify_action"
    /\ result = "pending"
    /\ batch = <<>>
    /\ idx = 0
    /\ objectModifications = EmptyMap
    /\ eventQueue = EmptyMap
    /\ failPhase = "none"
    /\ stateReads = 0
    /\ ExtIdle

\* StateVerifier.VerifyStateTransition on the action
VerifyStateTransitionStep ==
    /\ pc = "verify_action"
    /\ result' = RegionVerifyStateTransition(action, objects, regions)
    /\ pc' = "verified"
    /\ UNCHANGED <<objects, batch, idx, objectModifications, eventQueue,
                   failPhase, stateReads, regions, action>>
    /\ UNCHANGED extVars

NextRegion == VerifyStateTransitionStep

SpecRegion == InitRegion /\ [][NextRegion]_vars

(***************************************************************************)
(* Region actions from submission to execution (src/unnamed/part_006):     *)
(* Action.Verify, the StateVerifier and Execute.  The source holds two     *)
(* revisions of the StateVerifier's region checks (part_009 and the region *)
(* methods of part_010); revision says which of them is built.             *)
(***************************************************************************)
\* a region may hold up to MaxTEEs addresses in the model
MaxTEEs == 3

MaxRegionIDLen == 256
ErrInvalidRegionID == "ErrInvalidRegionID"

\* actions.verifyAttestationPair(attestations), called by Verify of the
\* region actions: every signature verifies and the two attestations agree
actionsVerifyAttestationPair(attestations) ==
    IF \E i \in 1..2 : attestations[i].Signature # Signed
    THEN ErrInvalidAttestation
    ELSE IF \/ attestations[1].Timestamp # attestations[2].Timestamp
            \/ attestations[1].Data # attestations[2].Data
    THEN ErrAttestationMismatch
    ELSE Nil

CreateRegionActionVerify(a) ==
    IF Len(a.RegionID) = 0 \/ Len(a.RegionID) > MaxRegionIDLen
    THEN ErrInvalidRegionID
    ELSE IF Len(a.TEEs) = 0 THEN ErrInvalidTEE
    ELSE IF \E i \in DOMAIN a.TEEs : a.TEEs[i] = "" THEN ErrInvalidTEE
    ELSE actionsVerifyAttestationPair(a.Attestations)

UpdateRegionActionVerify(a) ==
    IF Len(a.RegionID) = 0 \/ Len(a.RegionID) > MaxRegionIDLen
    THEN ErrInvalidRegionID
    ELSE IF Len(a.AddTEEs) = 0 /\ Len(a.RemTEEs) = 0 THEN ErrInvalidTEE
    ELSE IF \E i \in DOMAIN a.AddTEEs : a.AddTEEs[i] = "" THEN ErrInvalidTEE
    ELSE IF \E i \in DOMAIN a.RemTEEs : a.RemTEEs[i] = "" THEN ErrInvalidTEE
    ELSE actionsVerifyAttestationPair(a.Attestations)

\* the region methods of the part_010 revision of the StateVerifier
VerifyCreateRegion(a, regs) ==
    IF a.RegionID \in DOMAIN regs THEN ErrRegionExists
    ELSE IF Len(a.TEEs) = 0 THEN ErrInvalidTEE
    ELSE IF \E i \in DOMAIN a.TEEs : a.TEEs[i] = "" THEN ErrInvalidTEE
    ELSE Nil

VerifyUpdateRegion(a, regs) ==
    IF a.RegionID \notin DOMAIN regs THEN ErrRegionNotFound
    ELSE IF Len(a.AddTEEs) = 0 /\ Len(a.RemTEEs) = 0 THEN ErrInvalidTEE
    ELSE IF \E i \in DOMAIN a.AddTEEs : a.AddTEEs[i] = "" THEN ErrInvalidTEE
    ELSE IF \E i \in DOMAIN a.RemTEEs :
                a.RemTEEs[i] \notin Elems(regs[a.RegionID])
    THEN ErrInvalidTEE
    ELSE Nil

VerifyStateTransitionRegions(a, regs) ==
    CASE a.kind = CreateRegion -> VerifyCreateRegion(a, regs)
      [] a.kind = UpdateRegion -> VerifyUpdateRegion(a, regs)
      [] OTHER -> ErrUnknownActionType

\* Execute of the region actions: the error returned and the regions stored
CreateRegionExecute(a, regs) ==
    IF a.RegionID \in DOMAIN regs
    THEN [err |-> ErrRegionExists, regions |-> regs]
    ELSE [err |-> Nil, regions |-> MapSet(regs, a.RegionID, a.TEEs)]

UpdateRegionExecute(a, regs) ==
    IF a.RegionID \notin DOMAIN regs
    THEN [err |-> ErrRegionNotFound, regions |-> regs]
    ELSE [err |-> Nil,
          regions |-> MapSet(regs, a.RegionID,
                             updatedTEEs(regs[a.RegionID], a))]

ExecRegionIDs == {"", "r1"}
ExecTEELists == {<<>>, <<"t1">>, <<"t1", "t2">>, <<"t3">>, <<"">>}
ExecPairs ==
    {<<TEEAttestation(e[1], "ts1", "d1", Signed),
       TEEAttestation(e[2], "ts1", "d1", Signed)>> :
        e \in {<<"t1", "t1">>, <<"t1", "t2">>, <<"t3", "t3">>}}
    \cup {<<TEEAttestation("t1", "ts1", "d1", Signed),
            TEEAttestation("t1", "ts2", "d1", Forged)>>}

ExecRegionActions ==
    {CreateRegionAction(r, t, p) :
        r \in ExecRegionIDs, t \in ExecTEELists, p \in ExecPairs}
    \cup {UpdateRegionAction(r, x[1], x[2], p) :
            r \in ExecRegionIDs, x \in ExecTEELists \X ExecTEELists,
            p \in ExecPairs}

Revisions == {"part_009", "part_010"}

InitRegionExec ==
    /\ regions = EmptyMap
    /\ revision \in Revisions
    /\ ValIdle
    /\ action = NoAction
    /\ pc = "region_idle"
    /\ result = "pending"
    /\ objects = {}
    /\ batch = <<>>
    /\ idx = 0
    /\ objectModifications = EmptyMap
    /\ eventQueue = EmptyMap
    /\ failPhase = "none"
    /\ stateReads = 0
    /\ calls = <<>>
    /\ inputObject = ""
    /\ queuedEvents = <<>>
    /\ state = EmptyMap
    /\ blockTime = 0
    /\ medianTime = 0

\* the TEE list of the region stays within MaxTEEs after the action
WithinMaxTEEs(a, regs) ==
    IF a.kind = CreateRegion THEN Len(a.TEEs) <= MaxTEEs
    ELSE a.RegionID \in DOMAIN regs =>
            Len(regs[a.RegionID]) + Len(a.AddTEEs) <= MaxTEEs

\* a region action is submitted; a handler that has returned leaves no
\* action behind
SubmitRegionAction ==
    /\ pc = "region_idle"
    /\ \E a \in ExecRegionActions :
         /\ WithinMaxTEEs(a, regions)
         /\ action' = a
    /\ pc' = "region_action_verify"
    /\ result' = "pending"
    /\ UNCHANGED <<objects, batch, idx, objectModifications, eventQueue,
                   failPhase, stateReads, regions>>
    /\ UNCHANGED extVars

\* CreateRegionAction.Verify / UpdateRegionAction.Verify
RegionActionVerify ==
    /\ pc = "region_action_verify"
    /\ LET err == IF action.kind = CreateRegion
                  THEN CreateRegionActionVerify(action)
                  ELSE UpdateRegionActionVerify(action) IN
       /\ result' = err
       /\ pc' = IF err = Nil THEN "region_state_verify" ELSE "region_idle"
       /\ action' = IF err = Nil THEN action ELSE NoAction
    /\ UNCHANGED <<objects, batch, idx, objectModifications, eventQueue,
                   failPhase, stateReads, regions>>
    /\ UNCHANGED extVars

\* StateVerifier.VerifyStateTransition of the revision that is built
RegionStateVerify ==
    /\ pc = "region_state_verify"
    /\ LET err == IF revision = "part_009"
                  THEN RegionVerifyStateTransition(action, objects, regions)
                  ELSE VerifyStateTransitionRegions(action, regions) IN
       /\ result' = err
       /\ pc' = IF err = Nil THEN "region_execute" ELSE "region_idle"
       /\ action' = IF err = Nil THEN action ELSE NoAction
    /\ UNCHANGED <<objects, batch, idx, objectModifications, eventQueue,
                   failPhase, stateReads, regions>>
    /\ UNCHANGED extVars

\* CreateRegionAction.Execute / UpdateRegionAction.Execute
RegionActionExecute ==
    /\ pc = "region_execute"
    /\ LET r == IF action.kind = CreateRegion
                THEN CreateRegionExecute(action, regions)
                ELSE UpdateRegionExecute(action, regions) IN
       /\ result' = r.err
       /\ regions' = r.regions
    /\ pc' = "region_idle"
    /\ action' = NoAction
    /\ UNCHANGED <<objects, batch, idx, objectModifications, eventQueue,
                   failPhase, stateReads>>
    /\ UNCHANGED extVars

NextRegionExec ==
    \/ SubmitRegionAction
    \/ RegionActionVerify
    \/ RegionStateVerify
    \/ RegionActionExecute

SpecRegionExec == InitRegionExec /\ [][NextRegionExec]_vars

(***************************************************************************)
(* TEEExecAction.Execute (src/unnamed/part_005, the same checks as in      *)
(* part_004): region, enclave, TEE signature, Roughtime stamp quorum and   *)
(* staleness window, then the state updates and events are written.        *)
(*                                                                         *)
(* A uint64 is held as an integer: a negative integer n stands for the     *)
(* value 2^64 + n that unsigned arithmetic wraps around to, so that        *)
(* subtraction and comparison are exact for all times the model uses.      *)
(***************************************************************************)
\* most Roughtime stamps of an action in the model
MaxStamps == 4

ErrInvalidRegion == "ErrInvalidRegion"
ErrInvalidEnclave == "ErrInvalidEnclave"
ErrInvalidSignature == "ErrInvalidSignature"
ErrInvalidTimeStamps == "ErrInvalidTimeStamps"
ErrStaleTimeStamp == "ErrStaleTimeStamp"
\* index out of range in enclaveStatus[0]
PanicIndexOutOfRange == "panic: index out of range"

TEEExec == "TEEExec"

\* fewest stamps verifyTimeStamps takes
MinTimeStamps == 3
maxDrift == 5 * 60

RoughtimeStamp(serverID, time, signature) ==
    [ServerID |-> serverID, Time |-> time, Signature |-> signature]

\* ContractAddr, StateUpdates and Events are the fields of ExecResult
TEEExecAction(regionID, enclType, enclID, addr, updates, events, sig, stamps) ==
    [kind |-> TEEExec, RegionID |-> regionID, EnclaveType |-> enclType,
     EnclaveID |-> enclID, ContractAddr |-> addr, StateUpdates |-> updates,
     Events |-> events, TEESig |-> sig, TimeStamps |-> stamps]

\* state.Key(parts...)
Key(parts) == parts

\* a - b over uint64
Uint64Sub(a, b) == a - b

\* -a over uint64
Uint64Neg(a) == 0 - a

\* a < b over uint64: a wrapped value is above every value that is not
Uint64Less(a, b) ==
    IF (a < 0) = (b < 0) THEN a < b ELSE b < 0

verifyTEESignature(execResult, sig, pubKey, enclaveType) == TRUE

verifyRoughtimeStamp(stamp) == TRUE

\* sort.Slice(times, less): times in ascending order
RECURSIVE sortSlice(_)
sortSlice(times) ==
    IF Len(times) = 0 THEN <<>>
    ELSE LET i == CHOOSE k \in DOMAIN times :
                    \A j \in DOMAIN times : ~Uint64Less(times[j], times[k])
         IN <<times[i]>>
            \o sortSlice(SubSeq(times, 1, i - 1)
                         \o SubSeq(times, i + 1, Len(times)))

\* verifyTimeStamps: the median time and the error
verifyTimeStamps(stamps) ==
    IF Len(stamps) < MinTimeStamps
    THEN [time |-> 0, err |-> ErrInvalidTimeStamps]
    ELSE IF \E i \in DOMAIN stamps : ~verifyRoughtimeStamp(stamps[i])
    THEN [time |-> 0, err |-> ErrInvalidTimeStamps]
    ELSE LET times == sortSlice([i \in DOMAIN stamps |-> stamps[i].Time])
         IN [time |-> times[(Len(times) \div 2) + 1], err |-> Nil]

isTimeStampValid(stampTime, currentTime) ==
    LET diff0 == Uint64Sub(currentTime, stampTime)
        diff == IF Uint64Less(diff0, 0) THEN Uint64Neg(diff0) ELSE diff0
    IN ~Uint64Less(maxDrift, diff)

\* steps 1 to 5 of Execute: the error and the median time computed
teeExecChecks(t, st, now) ==
    LET enclaveKey == Key(<<"enclave", t.RegionID, t.EnclaveID>>)
        pubKeyKey == Key(<<"enclave-pubkey", t.RegionID, t.EnclaveID>>)
        pubKey == IF pubKeyKey \in DOMAIN st THEN st[pubKeyKey] ELSE <<>>
        quorum == verifyTimeStamps(t.TimeStamps)
    IN
    IF Key(<<"region", t.RegionID>>) \notin DOMAIN st
    THEN [err |-> ErrInvalidRegion, medianTime |-> 0]
    ELSE IF enclaveKey \notin DOMAIN st
    THEN [err |-> ErrInvalidEnclave, medianTime |-> 0]
    ELSE IF Len(st[enclaveKey]) = 0
    THEN [err |-> PanicIndexOutOfRange, medianTime |-> 0]
    ELSE IF st[enclaveKey][1] # 1
    THEN [err |-> ErrInvalidEnclave, medianTime |-> 0]
    ELSE IF ~verifyTEESignature(t.StateUpdates, t.TEESig, pubKey,
                                t.EnclaveType)
    THEN [err |-> ErrInvalidSignature, medianTime |-> 0]
    ELSE IF quorum.err # Nil
    THEN [err |-> quorum.err, medianTime |-> 0]
    ELSE IF ~isTimeStampValid(quorum.time, now)
    THEN [err |-> ErrStaleTimeStamp, medianTime |-> quorum.time]
    ELSE [err |-> Nil, medianTime |-> quorum.time]

\* steps 6 and 7 of Execute: the state after the updates and the events
teeExecWrites(t, st) ==
    [k \in DOMAIN st
        \cup {Key(<<"state", t.RegionID, u>>) : u \in DOMAIN t.StateUpdates}
        \cup {Key(<<"event", t.RegionID, t.ContractAddr, i - 1>>) :
                i \in DOMAIN t.Events} |->
        IF \E i \in DOMAIN t.Events :
                k = Key(<<"event", t.RegionID, t.ContractAddr, i - 1>>)
        THEN t.Events[k[4] + 1]
        ELSE IF \E u \in DOMAIN t.StateUpdates :
                    k = Key(<<"state", t.RegionID, u>>)
        THEN t.StateUpdates[k[3]]
        ELSE st[k]]

StampTimes == {100, 104, 108, 112}
QuorumStamps ==
    {RoughtimeStamp("srv", t, g) : t \in StampTimes, g \in Signatures}

\* three stamps of one time, for the staleness window
DriftTimes == {150, 199, 200, 250, 500, 501, 750, 800, 801}
BlockTimes == {0, 500}
DriftStamps == {[i \in 1..3 |-> RoughtimeStamp("srv", t, Signed)] :
                    t \in DriftTimes}

\* a registry with region r1 and enclave e1 of it active under key pk1
Registry(status) ==
    (<<"region", "r1">> :> <<1>>)
    @@ (<<"enclave", "r1", "e1">> :> status)
    @@ (<<"enclave-pubkey", "r1", "e1">> :> <<"pk1">>)

Registries ==
    {EmptyMap, (<<"region", "r1">> :> <<1>>)}
    \cup {Registry(s) : s \in {<<>>, <<0>>, <<1>>}}

TEEUpdates == {EmptyMap, [k1 |-> "v1"]}
TEEEvents == {<<>>, <<"ev1">>}

InitTEEExec ==
    /\ \/ /\ state = Registry(<<1>>)
          /\ blockTime = 104
          /\ \E s \in SeqsUpTo(QuorumStamps, MaxStamps) :
                action = TEEExecAction("r1", "SGX", "e1", "c1", EmptyMap, <<>>,
                                       Signed, s)
       \/ /\ state = Registry(<<1>>)
          /\ blockTime \in BlockTimes
          /\ \E s \in DriftStamps :
                action = TEEExecAction("r1", "SGX", "e1", "c1", EmptyMap, <<>>,
                                       Signed, s)
       \/ /\ state \in Registries
          /\ blockTime = 104
          /\ \E u \in TEEUpdates, e \in TEEEvents, g \in Signatures,
                ty \in {"SGX", "SEV"} :
                action = TEEExecAction("r1", ty, "e1", "c1", u, e, g,
                            [i \in 1..3 |-> RoughtimeStamp("srv", 104, Signed)])
    /\ medianTime = 0
    /\ pc = "tee_start"
    /\ result = "pending"
    /\ objects = {}
    /\ batch = <<>>
    /\ idx = 0
    /\ objectModifications = EmptyMap
    /\ eventQueue = EmptyMap
    /\ failPhase = "none"
    /\ stateReads = 0
    /\ regions = EmptyMap
    /\ calls = <<>>
    /\ inputObject = ""
    /\ queuedEvents = <<>>
    /\ revision = "part_009"
    /\ ValIdle

\* Execute, steps 1 to 5
TEEExecChecks ==
    /\ pc = "tee_start"
    /\ LET r == teeExecChecks(action, state, blockTime) IN
       /\ medianTime' = r.medianTime
       /\ result' = IF r.err = Nil THEN result ELSE r.err
       /\ pc' = IF r.err = Nil THEN "tee_write" ELSE "tee_done"
    /\ UNCHANGED coreVarsButPcResult
    /\ UNCHANGED <<calls, inputObject, queuedEvents, state, blockTime,
                   revision, cv, code>>

\* Execute, steps 6 and 7
TEEExecWrites ==
    /\ pc = "tee_write"
    /\ state' = teeExecWrites(action, state)
    /\ result' = Nil
    /\ pc' = "tee_done"
    /\ UNCHANGED coreVarsButPcResult
    /\ UNCHANGED <<calls, inputObject, queuedEvents, blockTime, revision, cv, code,
                   medianTime>>

NextTEEExec ==
    \/ TEEExecChecks
    \/ TEEExecWrites

SpecTEEExec == InitTEEExec /\ [][NextTEEExec]_vars

(***************************************************************************)
(* Several VerifyBatch calls on one BatchVerifier value.  Every call has   *)
(* its own actions, position and verdict; bv.objectModifications and       *)
(* bv.eventQueue are fields of the BatchVerifier and shared by its calls.  *)
(***************************************************************************)
\* longest batch handed to one of the calls
MaxCallLen == 2

\* the Go runtime aborts the process on a detected concurrent map access
FatalConcurrentMap == "fatal error: concurrent map writes"

CallIds == {1, 2}

CallActions ==
    {CreateObjectAction("a", 1, 1), DeleteObjectAction("a"),
     SendEventAction(1, "a", "f", 1), CreateObjectAction("b", 1, 1)}

CallBatches ==
    SeqsUpTo(CallActions, MaxCallLen)
    \cup {[i \in 1..(MaxBatchSize + 1) |-> ChangeObjectStorageAction("a", 1)]}

\* a call that has not begun (pc0 = "idle") or is about to (pc0 = "start")
NewCall(actions, pc0) ==
    [batch |-> actions, pc |-> pc0, idx |-> 0, result |-> "pending",
     failPhase |-> "none"]

\* VerifyBatch of call c: the size check and the reset of the tracking
\* maps, the reset left out
CallStart_NoReset(c) ==
    /\ calls[c].pc = "start"
    /\ IF batchOverLimit(calls[c].batch)
       THEN calls' = [calls EXCEPT ![c].result = ErrBatchLimit,
                                   ![c].failPhase = "limit",
                                   ![c].pc = "done"]
       ELSE calls' = [calls EXCEPT
                        ![c].idx = 1,
                        ![c].pc = IF Len(calls[c].batch) = 0
                                  THEN "constraints" ELSE "analyze"]
    /\ UNCHANGED <<objectModifications, eventQueue>>
    /\ UNCHANGED <<objects, batch, pc, idx, result, failPhase, stateReads,
                   regions, action>>
    /\ UNCHANGED <<inputObject, queuedEvents, state, blockTime, medianTime,
                   revision, cv, code>>

\* VerifyBatch of call c: the size check and the reset of the tracking maps
CallStart(c) ==
    /\ calls[c].pc = "start"
    /\ IF batchOverLimit(calls[c].batch)
       THEN /\ calls' = [calls EXCEPT ![c].result = ErrBatchLimit,
                                      ![c].failPhase = "limit",
                                      ![c].pc = "done"]
            /\ UNCHANGED <<objectModifications, eventQueue>>
       ELSE /\ objectModifications' = EmptyMap
            /\ eventQueue' = EmptyMap
            /\ calls' = [calls EXCEPT
                            ![c].idx = 1,
                            ![c].pc = IF Len(calls[c].batch) = 0
                                      THEN "constraints" ELSE "analyze"]
    /\ UNCHANGED <<objects, batch, pc, idx, result, failPhase, stateReads,
                   regions, action>>
    /\ UNCHANGED <<inputObject, queuedEvents, state, blockTime, medianTime,
                   revision, cv, code>>

\* one iteration of the loop of analyzeActions of call c
CallAnalyze(c) ==
    /\ calls[c].pc = "analyze"
    /\ LET a == calls[c].batch[calls[c].idx]
           err == analyzeErr(a, objectModifications, eventQueue) IN
       IF err # Nil
       THEN /\ calls' = [calls EXCEPT ![c].result = err,
                                      ![c].failPhase = "analyze",
                                      ![c].pc = "done"]
            /\ UNCHANGED <<objectModifications, eventQueue>>
       ELSE /\ objectModifications' = analyzeMods(a, objectModifications)
            /\ eventQueue' = analyzeQueue(a, eventQueue)
            /\ calls' = IF calls[c].idx = Len(calls[c].batch)
                        THEN [calls EXCEPT ![c].pc = "verify", ![c].idx = 1]
                        ELSE [calls EXCEPT ![c].idx = @ + 1]
    /\ UNCHANGED <<objects, batch, pc, idx, result, failPhase, stateReads,
                   regions, action>>
    /\ UNCHANGED <<inputObject, queuedEvents, state, blockTime, medianTime,
                   revision, cv, code>>

\* one iteration of the loop over verifyAction of call c
CallVerify(c) ==
    /\ calls[c].pc = "verify"
    /\ LET a == calls[c].batch[calls[c].idx]
           err == verifyAction(a, objects, objectModifications, eventQueue) IN
       IF err # Nil
       THEN calls' = [calls EXCEPT ![c].result = err,
                                   ![c].failPhase = "verify",
                                   ![c].pc = "done"]
       ELSE calls' = IF calls[c].idx = Len(calls[c].batch)
                     THEN [calls EXCEPT ![c].pc = "constraints"]
                     ELSE [calls EXCEPT ![c].idx = @ + 1]
    /\ UNCHANGED <<objects, batch, pc, idx, objectModifications, eventQueue,
                   result, failPhase, stateReads, regions, action>>
    /\ UNCHANGED <<inputObject, queuedEvents, state, blockTime, medianTime,
                   revision, cv, code>>

\* the global constraints and the verdict of call c
CallConstraints(c) ==
    /\ calls[c].pc = "constraints"
    /\ \E order \in KeyOrders(eventQueue) :
         LET err == verifyBatchConstraints(order) IN
         calls' = [calls EXCEPT
                     ![c].result = err,
                     ![c].failPhase = IF err # Nil THEN "constraints"
                                      ELSE "none",
                     ![c].pc = "done"]
    /\ UNCHANGED <<objects, batch, pc, idx, objectModifications, eventQueue,
                   result, failPhase, stateReads, regions, action>>
    /\ UNCHANGED <<inputObject, queuedEvents, state, blockTime, medianTime,
                   revision, cv, code>>

\* the caller makes its next call once the call before has returned
CallAgain ==
    /\ calls[1].pc = "done"
    /\ calls[2].pc = "idle"
    /\ calls' = [calls EXCEPT ![2].pc = "start"]
    /\ UNCHANGED <<objects, batch, pc, idx, objectModifications, eventQueue,
                   result, failPhase, stateReads, regions, action>>
    /\ UNCHANGED <<inputObject, queuedEvents, state, blockTime, medianTime,
                   revision, cv, code>>

\* two calls inside the passes at once, one of them writing a map: the
\* runtime may detect the unsynchronised access and abort both
ConcurrentMapFault ==
    /\ \E c \in CallIds :
         /\ calls[c].pc = "analyze"
         /\ \A d \in CallIds \ {c} :
               calls[d].pc \in {"analyze", "verify", "constraints"}
    /\ calls' = [c \in CallIds |->
                    [calls[c] EXCEPT !.result = FatalConcurrentMap,
                                     !.failPhase = "fatal",
                                     !.pc = "done"]]
    /\ UNCHANGED <<objects, batch, pc, idx, objectModifications, eventQueue,
                   result, failPhase, stateReads, regions, action>>
    /\ UNCHANGED <<inputObject, queuedEvents, state, blockTime, medianTime,
                   revision, cv, code>>

\* the variables the calls do not use
CallsOnly ==
    /\ batch = <<>>
    /\ pc = "calls"
    /\ idx = 0
    /\ result = "pending"
    /\ failPhase = "none"
    /\ stateReads = 0
    /\ regions = EmptyMap
    /\ action = NoAction
    /\ inputObject = ""
    /\ queuedEvents = <<>>
    /\ state = EmptyMap
    /\ blockTime = 0
    /\ medianTime = 0
    /\ revision = "part_010"
    /\ ValIdle

\* one caller, the second call made after the first has returned
InitRepeat ==
    /\ objects \in SUBSET {"a"}
    /\ \E b1, b2 \in CallBatches :
         calls = <<NewCall(b1, "start"), NewCall(b2, "idle")>>
    /\ objectModifications = EmptyMap
    /\ eventQueue = EmptyMap
    /\ CallsOnly

NextRepeat ==
    \/ CallAgain
    \/ \E c \in CallIds : CallStart(c)
    \/ \E c \in CallIds : CallAnalyze(c)
    \/ \E c \in CallIds : CallVerify(c)
    \/ \E c \in CallIds : CallConstraints(c)

SpecRepeat == InitRepeat /\ [][NextRepeat]_vars

\* two callers at once
InitConcurrent ==
    /\ objects \in SUBSET {"a"}
    /\ \E b1, b2 \in CallBatches :
         calls = <<NewCall(b1, "start"), NewCall(b2, "start")>>
    /\ objectModifications = EmptyMap
    /\ eventQueue = EmptyMap
    /\ CallsOnly

NextConcurrent ==
    \/ \E c \in CallIds : CallStart(c)
    \/ \E c \in CallIds : CallAnalyze(c)
    \/ \E c \in CallIds : CallVerify(c)
    \/ \E c \in CallIds : CallConstraints(c)
    \/ ConcurrentMapFault

SpecConcurrent == InitConcurrent /\ [][NextConcurrent]_vars

(***************************************************************************)
(* The verifiers over a persisted state that holds objects, regions, the   *)
(* event queue and the input-object designation: VerifyBatch               *)
(* (src/verifier/batch.go) and VerifyStateTransition (part_009, part_010)  *)
(* reach the state through storage.GetObject, storage.GetRegion and        *)
(* storage.GetInputObject only.                                            *)
(***************************************************************************)
\* longest batch verified over a populated state
MaxFrameLen == 2

StoredQueues == {<<>>, <<eventInfo(1, "f")>>}
StoredInputObjects == {"", "b"}

\* region-scoped and plain actions with well-formed attestation pairs
FrameActions ==
    {a \in RegionActions :
        "Attestations" \in DOMAIN a =>
            \A i \in 1..2 : /\ a.Attestations[i].Signature = Signed
                            /\ a.Attestations[i].Data = "d1"}

InitFrame ==
    /\ \/ /\ objects \in SUBSET Ids
          /\ batch \in SeqsUpTo(GeneralActions, MaxFrameLen)
          /\ regions \in {EmptyMap}
          /\ action = NoAction
          /\ pc = "start"
       \/ /\ objects \in SUBSET {"a"}
          /\ batch = <<>>
          /\ regions \in RegionStores
          /\ action \in FrameActions
          /\ pc = "verify_action"
    /\ inputObject \in StoredInputObjects
    /\ queuedEvents \in StoredQueues
    /\ idx = 0
    /\ objectModifications = EmptyMap
    /\ eventQueue = EmptyMap
    /\ result = "pending"
    /\ failPhase = "none"
    /\ stateReads = 0
    /\ calls = <<>>
    /\ state = EmptyMap
    /\ blockTime = 0
    /\ medianTime = 0
    /\ revision = "part_009"
    /\ ValIdle

NextFrame ==
    \/ VerifyBatch
    \/ analyzeActions
    \/ verifyActionStep
    \/ verifyBatchConstraintsStep
    \/ VerifyStateTransitionStep

SpecFrame == InitFrame /\ [][NextFrame]_vars

(***************************************************************************)
(* The Code Format Validator (src/unnamed/part_002, and the earlier        *)
(* revision src/vm/validator.go that has no TEE capability table).  A code *)
(* blob is a sequence of bytes; cv is the CodeValidator: its size limit,   *)
(* its format registry (format id -> validator) and its capability table   *)
(* (TEE type -> list of format ids).                                       *)
(***************************************************************************)
ErrInvalidFormat == "ErrInvalidFormat"
ErrUnsupportedFormat == "ErrUnsupportedFormat"
ErrMalformedCode == "ErrMalformedCode"
ErrInvalidHeader == "ErrInvalidHeader"
ErrInvalidTEEFormat == "ErrInvalidTEEFormat"

FormatRaw == 1
FormatWasm == 2
FormatCustom == 3

TEETypeSGX == 1
TEETypeSEV == 2

\* "\x00SHUTTLE"
HeaderMagic == <<0, 83, 72, 85, 84, 84, 76, 69>>
HeaderSize == 16

\* "\0asm" and version 1
wasmMagic == <<0, 97, 115, 109, 1, 0, 0, 0>>

\* code[from:], with Go's 0-based from
SliceFrom(bytes, from) == SubSeq(bytes, from + 1, Len(bytes))

\* code[:to]
SliceTo(bytes, to) == SubSeq(bytes, 1, to)

\* binary.LittleEndian.Uint32
LittleEndianUint32(b) == b[1] + 256 * b[2] + 65536 * b[3] + 16777216 * b[4]

RawValidatorValidate(body) ==
    IF Len(body) = 0 THEN ErrMalformedCode ELSE Nil

\* RawValidator.Validate of the earlier revision
RawValidatorValidateEarlier(body) ==
    IF Len(body) = 0 THEN ErrMalformedCode
    ELSE IF Len(body) < body[1] * 2 + 1 THEN ErrMalformedCode
    ELSE Nil

RawValidatorValidateForTEE_Nil(body, teeType) == Nil

RawValidatorValidateForTEE(body, teeType) == ErrInvalidTEEFormat

WasmValidatorValidate(body) ==
    IF Len(body) < Len(wasmMagic) THEN ErrMalformedCode
    ELSE IF SliceTo(body, Len(wasmMagic)) # wasmMagic THEN ErrInvalidFormat
    ELSE Nil

WasmValidatorValidateForTEE(body, teeType) == Nil

CustomValidatorValidate(body) ==
    IF Len(body) < 4 THEN ErrMalformedCode
    ELSE IF Len(body) < LittleEndianUint32(SliceTo(body, 4)) + 4
         THEN ErrMalformedCode
    ELSE Nil

CustomValidatorValidateForTEE(body, teeType) == Nil

\* validator.Validate, dispatched on the registered validator
Validate(validator, body) ==
    CASE validator = "RawValidator" -> RawValidatorValidate(body)
      [] validator = "WasmValidator" -> WasmValidatorValidate(body)
      [] validator = "CustomValidator" -> CustomValidatorValidate(body)

\* validator.Validate of the earlier revision
ValidateEarlier(validator, body) ==
    CASE validator = "RawValidator" -> RawValidatorValidateEarlier(body)
      [] validator = "WasmValidator" -> WasmValidatorValidate(body)
      [] validator = "CustomValidator" -> CustomValidatorValidate(body)

\* validator.ValidateForTEE
ValidateForTEE(validator, body, teeType) ==
    CASE validator = "RawValidator" -> RawValidatorValidateForTEE(body, teeType)
      [] validator = "WasmValidator" -> WasmValidatorValidateForTEE(body, teeType)
      [] validator = "CustomValidator" -> CustomValidatorValidateForTEE(body, teeType)

RegisterFormat(v, format, validator) ==
    [v EXCEPT !.formats = MapSet(v.formats, format, validator)]

RegisterTEEFormat(v, teeType, formats) ==
    [v EXCEPT !.teeFormats = MapSet(v.teeFormats, teeType, formats)]

NewCodeValidator(maxSize) ==
    LET cv0 == [maxSize |-> maxSize, formats |-> EmptyMap,
                teeFormats |-> EmptyMap]
        cv1 == RegisterFormat(cv0, FormatRaw, "RawValidator")
        cv2 == RegisterFormat(cv1, FormatWasm, "WasmValidator")
        cv3 == RegisterFormat(cv2, FormatCustom, "CustomValidator")
        cv4 == RegisterTEEFormat(cv3, TEETypeSGX, <<FormatWasm>>)
    IN  RegisterTEEFormat(cv4, TEETypeSEV, <<FormatWasm, FormatCustom>>)

\* NewCodeValidator of the earlier revision: no capability table is filled
NewCodeValidatorEarlier(maxSize) ==
    LET cv0 == [maxSize |-> maxSize, formats |-> EmptyMap,
                teeFormats |-> EmptyMap]
        cv1 == RegisterFormat(cv0, FormatRaw, "RawValidator")
        cv2 == RegisterFormat(cv1, FormatWasm, "WasmValidator")
    IN  RegisterFormat(cv2, FormatCustom, "CustomValidator")

isFormatSupportedByTEE_AnyTEE(v, format, teeType) ==
    \E t \in DOMAIN v.teeFormats :
        \E i \in DOMAIN v.teeFormats[t] : v.teeFormats[t][i] = format

isFormatSupportedByTEE(v, format, teeType) ==
    IF teeType \notin DOMAIN v.teeFormats THEN FALSE
    ELSE \E i \in DOMAIN v.teeFormats[teeType] :
            v.teeFormats[teeType][i] = format

ValidateCode_HeaderFirst(v, blob) ==
    IF Len(blob) < HeaderSize THEN ErrInvalidHeader
    ELSE IF SliceTo(blob, 8) # HeaderMagic THEN ErrInvalidHeader
    ELSE IF Len(blob) > v.maxSize THEN ErrCodeTooLarge
    ELSE LET header == [Format |-> blob[9], Version |-> blob[10],
                        TEEType |-> blob[11]]
         IN  IF header.Format \notin DOMAIN v.formats
             THEN ErrUnsupportedFormat
             ELSE IF ~isFormatSupportedByTEE(v, header.Format, header.TEEType)
             THEN ErrInvalidTEEFormat
             ELSE Nil

\* CodeValidator.ValidateCode
ValidateCode(v, blob) ==
    IF Len(blob) > v.maxSize THEN ErrCodeTooLarge
    ELSE IF Len(blob) < HeaderSize THEN ErrInvalidHeader
    ELSE IF SliceTo(blob, 8) # HeaderMagic THEN ErrInvalidHeader
    ELSE LET header == [Format |-> blob[9], Version |-> blob[10],
                        TEEType |-> blob[11],
                        Reserved |-> SubSeq(blob, 12, 16)]
         IN  IF header.Format \notin DOMAIN v.formats
             THEN ErrUnsupportedFormat
             ELSE IF ~isFormatSupportedByTEE(v, header.Format, header.TEEType)
             THEN ErrInvalidTEEFormat
             ELSE LET validator == v.formats[header.Format]
                      err == Validate(validator, SliceFrom(blob, HeaderSize))
                  IN  IF err # Nil THEN err
                      ELSE ValidateForTEE(validator,
                                          SliceFrom(blob, HeaderSize),
                                          header.TEEType)

\* CodeValidator.ValidateCode of the earlier revision
ValidateCodeEarlier(v, blob) ==
    IF Len(blob) > v.maxSize THEN ErrCodeTooLarge
    ELSE IF Len(blob) < HeaderSize THEN ErrInvalidHeader
    ELSE IF SliceTo(blob, 8) # HeaderMagic THEN ErrInvalidHeader
    ELSE LET header == [Format |-> blob[9], Version |-> blob[10],
                        Reserved |-> SubSeq(blob, 11, 16)]
         IN  IF header.Format \notin DOMAIN v.formats
             THEN ErrUnsupportedFormat
             ELSE ValidateEarlier(v.formats[header.Format],
                                  SliceFrom(blob, HeaderSize))

\* CreateCode: the header followed by the body
CreateCode(format, version, teeType, body) ==
    HeaderMagic \o <<format, version, teeType>> \o <<0, 0, 0, 0, 0>> \o body

(***************************************************************************)
(* One CodeValidator, on which capability entries are registered and to    *)
(* which code blobs are handed.                                            *)
(***************************************************************************)
MaxFormatId == 4
MaxTEETypeId == 3

ValidatorRevisions == {"part_002", "validator.go"}

MaxSizes == {12, 20, MaxCodeSize}

Bodies ==
    {<<>>, wasmMagic, <<0, 97, 115, 109, 2, 0, 0, 0>>, <<0, 0, 0, 0>>,
     <<1, 0, 0, 0>>, <<1, 7, 7>>}

Blobs ==
    {CreateCode(f, 1, t, b) :
        f \in 0..MaxFormatId, t \in 0..MaxTEETypeId, b \in Bodies}
    \cup {<<>>, SliceTo(CreateCode(FormatWasm, 1, TEETypeSGX, <<>>), 15),
          <<1>> \o SliceFrom(CreateCode(FormatWasm, 1, TEETypeSGX, wasmMagic), 1),
          <<0, 83, 72, 85, 84, 84, 76>>}

TEEFormatLists == {<<>>, <<FormatRaw>>, <<FormatRaw, FormatWasm>>}

InitValidator ==
    /\ revision \in ValidatorRevisions
    /\ \E m \in MaxSizes :
            cv = IF revision = "part_002" THEN NewCodeValidator(m)
                 ELSE NewCodeValidatorEarlier(m)
    /\ code = <<>>
    /\ pc = "cv_idle"
    /\ result = "pending"
    /\ objects = {}
    /\ batch = <<>>
    /\ idx = 0
    /\ objectModifications = EmptyMap
    /\ eventQueue = EmptyMap
    /\ failPhase = "none"
    /\ stateReads = 0
    /\ regions = EmptyMap
    /\ action = NoAction
    /\ calls = <<>>
    /\ inputObject = ""
    /\ queuedEvents = <<>>
    /\ state = EmptyMap
    /\ blockTime = 0
    /\ medianTime = 0

\* the owner of the validator registers a capability entry
RegisterTEEFormatStep ==
    /\ pc = "cv_idle"
    /\ revision = "part_002"
    /\ \E t \in 0..MaxTEETypeId, fs \in TEEFormatLists :
            cv' = RegisterTEEFormat(cv, t, fs)
    /\ code' = <<>>
    /\ result' = "pending"
    /\ UNCHANGED <<pc, coreVarsButPcResult>>
    /\ UNCHANGED <<calls, inputObject, queuedEvents, state, blockTime,
                   medianTime, revision>>

\* a code blob is handed to ValidateCode
ValidateCodeStep ==
    /\ pc = "cv_idle"
    /\ \E b \in Blobs :
        /\ code' = b
        /\ result' = IF revision = "part_002" THEN ValidateCode(cv, b)
                     ELSE ValidateCodeEarlier(cv, b)
    /\ pc' = "cv_done"
    /\ UNCHANGED <<cv, coreVarsButPcResult>>
    /\ UNCHANGED <<calls, inputObject, queuedEvents, state, blockTime,
                   medianTime, revision>>

NextValidator == RegisterTEEFormatStep \/ ValidateCodeStep

SpecValidator == InitValidator /\ [][NextValidator]_vars

(***************************************************************************)
(* Properties of VerifyBatch (specification Spec).                         *)
(***************************************************************************)
\* the declared routing of a batch: an edge from the target of an event to
\* the object its function call emits an event to
RoutingEdges(b) ==
    {<<b[i].ID, EmitsTo[b[i].FunctionCall]>> :
        i \in {k \in DOMAIN b : /\ b[k].kind = SendEvent
                                /\ b[k].FunctionCall \in DOMAIN EmitsTo}}

Compose(E, F) ==
    {<<r[1][1], r[2][2]>> : r \in {q \in E \X F : q[1][2] = q[2][1]}}

RECURSIVE Closure(_, _)
Closure(E, n) ==
    IF n = 0 THEN E
    ELSE LET C == Closure(E, n - 1) IN C \cup Compose(C, E)

HasCycle(E) == \E r \in Closure(E, Cardinality(RouteIds)) : r[1] = r[2]

\* the analysis pass returned at or before action j, and with err if at j
AnalysisRejectsBy(j, err) ==
    /\ failPhase = "analyze"
    /\ idx <= j
    /\ idx = j => result = err

\* C1: a batch with two CreateObject actions for one id is never accepted:
\* the second creation is rejected with ErrDuplicateAction, unless an
\* action before it already caused the batch to be rejected.
C1_SecondCreateIsDuplicate ==
    pc = "done" /\ ~batchOverLimit(batch) =>
        \A i, j \in DOMAIN batch :
            (/\ i < j
             /\ batch[i].kind = CreateObject
             /\ batch[j].kind = CreateObject
             /\ batch[i].ID = batch[j].ID)
            => /\ result # Nil
               /\ \/ AnalysisRejectsBy(j, ErrDuplicateAction)
                  \/ failPhase = "verify" /\ idx < j

C3_CycleRejected ==
    pc = "done" /\ failPhase \in {"none", "constraints"} =>
        (result = ErrCircularDependency <=> HasCycle(RoutingEdges(batch)))

\* C4: a batch of more than 256 actions returns ErrBatchLimit with no
\* state read and no tracking record built; ErrBatchLimit is returned for
\* no batch of 256 actions or fewer.
C4_BatchLimitFirst ==
    /\ Len(batch) > 256 =>
        /\ pc \in {"start", "done"}
        /\ stateReads = 0
        /\ objectModifications = EmptyMap
        /\ eventQueue = EmptyMap
        /\ pc = "done" => result = ErrBatchLimit /\ failPhase = "limit"
    /\ Len(batch) <= 256 => result # ErrBatchLimit /\ failPhase # "limit"

C4_Witness ==
    /\ pc = "done"
    /\ Len(batch) = 257
    /\ \A i \in DOMAIN batch : VerifyStateTransition(batch[i], objects) = Nil
    /\ result = ErrBatchLimit

\* C5: a batch in which a later event to a target carries a priority not
\* greater than an earlier event to the same target is rejected with
\* ErrInvalidEventOrder, unless one of the two passes rejected it before
\* the global constraints ran.
C5_EventOrderRejected ==
    pc = "done" =>
        \A i, j \in DOMAIN batch :
            (/\ i < j
             /\ batch[i].kind = SendEvent
             /\ batch[j].kind = SendEvent
             /\ batch[i].ID = batch[j].ID
             /\ batch[j].Priority <= batch[i].Priority)
            => \/ result = ErrInvalidEventOrder
               \/ failPhase \in {"limit", "analyze", "verify"}

C8_SetInputMissingTarget ==
    pc = "done" =>
        /\ (/\ failPhase = "verify"
            /\ batch[idx].kind = SetInputObject)
            => /\ result = ErrConflictingAction
               /\ batch[idx].ID \notin objects
               /\ ~\E i \in DOMAIN batch :
                     /\ batch[i].kind = CreateObject
                     /\ batch[i].ID = batch[idx].ID
        /\ result = Nil =>
            \A k \in DOMAIN batch :
                batch[k].kind = SetInputObject =>
                    \/ batch[k].ID \in objects
                    \/ \E i \in DOMAIN batch :
                          /\ batch[i].kind = CreateObject
                          /\ batch[i].ID = batch[k].ID

(***************************************************************************)
(* Properties of attestation-pair verification (specification SpecRegion). *)
(***************************************************************************)
RegionScoped(a) == a.kind \in {CreateRegion, UpdateRegion, SendEvent}

\* the action passes the checks that precede its attestation-pair check
PairCheckReached(a) ==
    CASE a.kind = CreateRegion ->
            /\ a.RegionID \notin DOMAIN regions
            /\ "" \notin Elems(a.TEEs)
      [] a.kind = UpdateRegion -> a.RegionID \in DOMAIN regions
      [] a.kind = SendEvent ->
            /\ a.ID \in objects
            /\ extractRegionFromID(a.ID) \in DOMAIN regions
      [] OTHER -> FALSE

\* the TEE set the pair of the action is checked against
CheckedTEEs(a) ==
    CASE a.kind = CreateRegion -> Elems(a.TEEs)
      [] a.kind = UpdateRegion -> Elems(regions[a.RegionID])
      [] a.kind = SendEvent -> Elems(regions[extractRegionFromID(a.ID)])

BothAuthorized(a) ==
    /\ a.Attestations[1].EnclaveID \in CheckedTEEs(a)
    /\ a.Attestations[2].EnclaveID \in CheckedTEEs(a)

\* C9: a pair of attestations from authorized enclaves that differ in
\* timestamp or data is rejected with ErrAttestationMismatch.
C9_MismatchError ==
    (/\ pc = "verified"
     /\ RegionScoped(action)
     /\ PairCheckReached(action)
     /\ BothAuthorized(action)
     /\ \/ action.Attestations[1].Timestamp # action.Attestations[2].Timestamp
        \/ action.Attestations[1].Data # action.Attestations[2].Data)
    => result = ErrAttestationMismatch

SignatureVerifies(attestation) == attestation.Signature = Signed

\* C11: a region-scoped action carrying an attestation whose signature does
\* not verify under the registered key of its enclave is rejected, also
\* when both enclaves are authorized and timestamps and data agree.
C11_SignatureVerified ==
    (/\ pc = "verified"
     /\ RegionScoped(action)
     /\ \E i \in 1..2 : ~SignatureVerifies(action.Attestations[i]))
    => result # Nil

\* the two attestations of an action carry one timestamp and one data value
PairAgrees(a) ==
    /\ a.Attestations[1].Timestamp = a.Attestations[2].Timestamp
    /\ a.Attestations[1].Data = a.Attestations[2].Data

PairEnclaves(a) == {a.Attestations[i].EnclaveID : i \in 1..2}

\* C12: the pair of an UpdateRegion is checked against the TEE list stored
\* for the region before the update (enclaves the action adds do not count,
\* members the action removes do), the pair of a CreateRegion against the
\* TEE list the action proposes.
C12_PairCheckedAgainst ==
    pc = "verified" =>
        /\ (action.kind = UpdateRegion /\ action.RegionID \in DOMAIN regions)
            => LET stored == Elems(regions[action.RegionID]) IN
               /\ result = Nil => PairEnclaves(action) \subseteq stored
               /\ ~(PairEnclaves(action) \subseteq stored)
                    => result = ErrInvalidAttestation
               /\ (/\ PairEnclaves(action) \subseteq stored
                   /\ PairAgrees(action)
                   /\ "" \notin Elems(action.AddTEEs))
                    => result = Nil
        /\ (/\ action.kind = CreateRegion
            /\ action.RegionID \notin DOMAIN regions
            /\ "" \notin Elems(action.TEEs))
            => LET proposed == Elems(action.TEEs) IN
               /\ ~(PairEnclaves(action) \subseteq proposed)
                    => result = ErrInvalidAttestation
               /\ (PairEnclaves(action) \subseteq proposed
                   /\ PairAgrees(action))
                    => result = Nil

C12_Witness ==
    /\ pc = "verified"
    /\ action.kind = UpdateRegion
    /\ action.RegionID \in DOMAIN regions
    /\ regions[action.RegionID] = <<"t1", "t2">>
    /\ action.RemTEEs = <<"t1">>
    /\ action.AddTEEs = <<"t2", "t3">>
    /\ action.Attestations[1].EnclaveID = "t1"
    /\ action.Attestations[2].EnclaveID = "t2"
    /\ result = Nil

(***************************************************************************)
(* Properties of region execution (specification SpecRegionExec).          *)
(***************************************************************************)
\* C13: every stored region has at least one TEE address, whatever sequence
\* of CreateRegion and UpdateRegion actions was verified and executed.
C13_RegionNeverEmpty ==
    \A r \in DOMAIN regions : Len(regions[r]) >= 1

\* C14: an UpdateRegion that names for removal an address that is not in
\* the stored TEE list of its region never passes verification: it is not
\* handed to Execute.
C14_AbsentRemovalRejected ==
    (/\ pc = "region_execute"
     /\ action.kind = UpdateRegion
     /\ action.RegionID \in DOMAIN regions)
    => Elems(action.RemTEEs) \subseteq Elems(regions[action.RegionID])

(***************************************************************************)
(* Properties of the timestamp quorum (specification SpecTEEExec).         *)
(***************************************************************************)
\* Execute has passed the region, enclave and TEE-signature checks and has
\* called verifyTimeStamps
QuorumChecked ==
    /\ pc \in {"tee_write", "tee_done"}
    /\ result \notin {ErrInvalidRegion, ErrInvalidEnclave,
                      PanicIndexOutOfRange, ErrInvalidSignature}

StampTimesOf(t) == [i \in DOMAIN t.TimeStamps |-> t.TimeStamps[i].Time]

\* the element at 0-based position (n - 1) / 2 of the ascending order of the
\* times: the middle for an odd count n, position n/2 - 1 for an even one
LowerMedian(times) ==
    LET k == (Len(times) - 1) \div 2 IN
    CHOOSE m \in Elems(times) :
        /\ Cardinality({i \in DOMAIN times : times[i] < m}) <= k
        /\ Cardinality({i \in DOMAIN times : times[i] <= m}) > k

\* the distance of two times
Distance(a, b) == IF a > b THEN a - b ELSE b - a

\* C15: the time the stamp quorum yields is the lower median of the stamps'
\* times, whatever the order of the stamps.
C15_LowerMedian ==
    (QuorumChecked /\ result # ErrInvalidTimeStamps)
    => medianTime = LowerMedian(StampTimesOf(action))

\* C16: the median time is rejected as stale exactly when it is more than
\* 300 seconds away from the block time, whichever of the two is later.
C16_DriftWindow ==
    (QuorumChecked /\ result # ErrInvalidTimeStamps)
    => (result = ErrStaleTimeStamp <=> Distance(medianTime, blockTime) > 300)

\* C17: the stamp quorum yields a time exactly when there are at least 3
\* stamps and the signature of every stamp verifies.
C17_QuorumNeedsValidStamps ==
    QuorumChecked
    => (result # ErrInvalidTimeStamps
        <=> /\ Len(action.TimeStamps) >= 3
            /\ \A i \in DOMAIN action.TimeStamps :
                  action.TimeStamps[i].Signature = Signed)

(***************************************************************************)
(* Properties of repeated and concurrent calls (specifications SpecRepeat  *)
(* and SpecConcurrent).                                                    *)
(***************************************************************************)
\* the analysis pass from action i on: the error and the maps it leaves
RECURSIVE analyzeFrom(_, _, _, _)
analyzeFrom(actions, i, mods, queue) ==
    IF i > Len(actions) THEN [err |-> Nil, mods |-> mods, queue |-> queue]
    ELSE IF analyzeErr(actions[i], mods, queue) # Nil
    THEN [err |-> analyzeErr(actions[i], mods, queue),
          mods |-> mods, queue |-> queue]
    ELSE analyzeFrom(actions, i + 1, analyzeMods(actions[i], mods),
                     analyzeQueue(actions[i], queue))

\* the per-action pass from action i on
RECURSIVE verifyFrom(_, _, _, _, _)
verifyFrom(actions, i, objs, mods, queue) ==
    IF i > Len(actions) THEN Nil
    ELSE IF verifyAction(actions[i], objs, mods, queue) # Nil
    THEN verifyAction(actions[i], objs, mods, queue)
    ELSE verifyFrom(actions, i + 1, objs, mods, queue)

\* the verdict of VerifyBatch(actions) on a BatchVerifier of its own
VerdictAlone(actions, objs) ==
    IF batchOverLimit(actions) THEN ErrBatchLimit
    ELSE LET an == analyzeFrom(actions, 1, EmptyMap, EmptyMap) IN
         IF an.err # Nil THEN an.err
         ELSE IF verifyFrom(actions, 1, objs, an.mods, an.queue) # Nil
         THEN verifyFrom(actions, 1, objs, an.mods, an.queue)
         ELSE verifyBatchConstraints(CHOOSE o \in KeyOrders(an.queue) : TRUE)

\* the object ids a batch names
IdsOf(actions) == {actions[i].ID : i \in DOMAIN actions}

\* C18: a call made on a BatchVerifier after an earlier call has returned
\* gives the verdict its actions get on a fresh BatchVerifier, whatever
\* records the earlier call left; the same actions get the same verdict.
C18_Deterministic ==
    /\ \A c \in CallIds :
          calls[c].pc = "done"
          => calls[c].result = VerdictAlone(calls[c].batch, objects)
    /\ (/\ calls[1].pc = "done"
        /\ calls[2].pc = "done"
        /\ calls[1].batch = calls[2].batch)
        => calls[1].result = calls[2].result

C18_Witness ==
    /\ calls[1].pc = "done"
    /\ calls[2].pc = "done"
    /\ calls[1].batch = <<CreateObjectAction("a", 1, 1)>>
    /\ calls[2].batch = <<CreateObjectAction("a", 1, 1)>>
    /\ calls[1].result = Nil
    /\ calls[2].result = Nil

\* C19: of two concurrent calls on one BatchVerifier for batches that name
\* no object in common, each that returns a verdict returns the verdict its
\* batch gets alone.
C19_ConcurrentCallsIndependent ==
    IdsOf(calls[1].batch) \cap IdsOf(calls[2].batch) = {}
    => \A c \in CallIds :
          (calls[c].pc = "done" /\ calls[c].result # FatalConcurrentMap)
          => calls[c].result = VerdictAlone(calls[c].batch, objects)

(***************************************************************************)
(* Frame of verification (specification SpecFrame).                        *)
(***************************************************************************)
\* C20: no step of VerifyBatch or VerifyStateTransition changes the stored
\* objects, the stored regions, the stored event queue or the input-object
\* designation, whether the verdict is accept or reject.
C20_NoPersistedWrite ==
    [][UNCHANGED <<objects, regions, queuedEvents, inputObject>>]_vars

C20_Witness ==
    /\ pc = "done"
    /\ batch = <<CreateObjectAction("a", 1, 1), SetInputObjectAction("b")>>
    /\ result = Nil
    /\ objects = {"b"}
    /\ inputObject = ""
    /\ queuedEvents = <<>>

(***************************************************************************)
(* The object handlers of src/actions/handler.go over the key-value state  *)
(* of the chain, and the keys of src/storage.  A key and an object id are  *)
(* sequences of bytes.  The host calls an action's Verify before its       *)
(* Execute; it may also hand an action to VerifyStateTransition or to      *)
(* VerifyBatch.  handlerRevision is the revision of CreateObjectAction     *)
(* that is built (Execute at handler.go:111 or at handler.go:854).         *)
(***************************************************************************)
ErrInvalidID == "ErrInvalidID"

MaxIDLen == 256

objectPrefix == 4
contractPrefix == 4

\* []byte("object:")
ObjectPrefix == <<111, 98, 106, 101, 99, 116, 58>>

\* storage.ObjectKey
ObjectKey(id) == <<objectPrefix>> \o id

\* []byte("object:" + a.ID), the key of the handlers
handlerObjectKey(id) == ObjectPrefix \o id

\* codec.Marshal of an object, and codec.Unmarshal
Marshal(obj) == <<"codec", obj>>
Unmarshal(v) == v[2]

\* storage.GetObject for every id: the ids under which it finds an object
GetObjectIds(st, ids) == {id \in ids : ObjectKey(id) \in DOMAIN st}

objectExists(st, id) == handlerObjectKey(id) \in DOMAIN st

validateCode(blob) == Nil

CreateObjectActionVerify(a, st) ==
    IF Len(a.ID) = 0 \/ Len(a.ID) > MaxIDLen THEN ErrInvalidID
    ELSE IF Len(a.Code) > MaxCodeSize THEN ErrCodeTooLarge
    ELSE IF Len(a.Storage) > MaxStorageSize THEN ErrStorageTooLarge
    ELSE IF objectExists(st, a.ID) THEN ErrObjectExists
    ELSE validateCode(a.Code)

\* CreateObjectAction.Execute of the built revision: the error and the state
CreateObjectActionExecute(a, st, rev) ==
    LET key == handlerObjectKey(a.ID)
        obj == [code |-> a.Code, storage |-> a.Storage]
    IN  IF rev = "handler.go:111" /\ key \in DOMAIN st
        THEN [err |-> ErrObjectExists, state |-> st]
        ELSE [err |-> Nil, state |-> MapSet(st, key, Marshal(obj))]

DeleteObjectActionVerify(a, st) ==
    IF Len(a.ID) = 0 \/ Len(a.ID) > MaxIDLen THEN ErrInvalidID
    ELSE IF ~objectExists(st, a.ID) THEN ErrObjectNotFound
    ELSE IF verifySuperObjectCaller # Nil THEN "ErrUnauthorized"
    ELSE Nil

DeleteObjectActionExecute(a, st) ==
    LET key == handlerObjectKey(a.ID)
    IN  IF key \notin DOMAIN st
        THEN [err |-> ErrObjectNotFound, state |-> st]
        ELSE [err |-> Nil,
              state |-> [k \in DOMAIN st \ {key} |-> st[k]]]

\* a.Verify and a.Execute, dispatched on the action
ActionVerify(a, st) ==
    IF a.kind = CreateObject THEN CreateObjectActionVerify(a, st)
    ELSE DeleteObjectActionVerify(a, st)

ActionExecute(a, st, rev) ==
    IF a.kind = CreateObject THEN CreateObjectActionExecute(a, st, rev)
    ELSE DeleteObjectActionExecute(a, st)

(***************************************************************************)
(* The host: actions that passed Verify wait in batch for their Execute.   *)
(***************************************************************************)
MaxPending == 2

\* n bytes 'a'
IdOfLen(n) == [i \in 1..n |-> 97]

HostIds == {<<>>, IdOfLen(1), IdOfLen(MaxIDLen), IdOfLen(MaxIDLen + 1)}

\* a wasm blob for SGX, and the same blob with a wrong magic
HostCodes ==
    {CreateCode(FormatWasm, 1, TEETypeSGX, wasmMagic),
     <<1>> \o SliceFrom(CreateCode(FormatWasm, 1, TEETypeSGX, wasmMagic), 1)}

\* an action of the handlers: the action of the verifiers and its bytes
WithBytes(a, blob, storage) == [Code |-> blob, Storage |-> storage] @@ a

HandlerActions ==
    {WithBytes(CreateObjectAction(id, Len(c), 1), c, <<7>>) :
        id \in HostIds, c \in HostCodes}
    \cup {WithBytes(DeleteObjectAction(id), <<>>, <<>>) : id \in HostIds}

VerifierOnlyActions ==
    {WithBytes(SendEventAction(1, id, "f", 1), <<>>, <<>>) : id \in HostIds}
    \cup {WithBytes(SetInputObjectAction(id), <<>>, <<>>) : id \in HostIds}

HandlerRevisions == {"handler.go:111", "handler.go:854"}

InitHost ==
    /\ state = EmptyMap
    /\ revision \in HandlerRevisions
    /\ batch = <<>>
    /\ action = NoAction
    /\ pc = "host_idle"
    /\ result = "pending"
    /\ objects = {}
    /\ idx = 0
    /\ objectModifications = EmptyMap
    /\ eventQueue = EmptyMap
    /\ failPhase = "none"
    /\ stateReads = 0
    /\ regions = EmptyMap
    /\ calls = <<>>
    /\ inputObject = ""
    /\ queuedEvents = <<>>
    /\ blockTime = 0
    /\ medianTime = 0
    /\ ValIdle

hostUntouched ==
    <<objects, idx, objectModifications, eventQueue, failPhase, stateReads,
      regions, calls, inputObject, queuedEvents, blockTime, medianTime,
      revision, cv, code>>

\* an action arrives
HostSubmit ==
    /\ pc = "host_idle"
    /\ action' \in HandlerActions \cup VerifierOnlyActions
    /\ pc' = "host_submitted"
    /\ result' = "pending"
    /\ UNCHANGED <<state, batch, hostUntouched>>

\* the host calls action.Verify and admits the action that passes
HostVerify ==
    /\ pc = "host_submitted"
    /\ action \in HandlerActions
    /\ Len(batch) < MaxPending
    /\ LET err == ActionVerify(action, state)
       IN  /\ result' = err
           /\ batch' = IF err = Nil THEN Append(batch, action) ELSE batch
    /\ pc' = "host_verified"
    /\ UNCHANGED <<state, action, hostUntouched>>

\* the host hands the action to StateVerifier.VerifyStateTransition
HostVerifyStateTransition ==
    /\ pc = "host_submitted"
    /\ result' = VerifyStateTransition(action, GetObjectIds(state, HostIds))
    /\ pc' = "host_state_verified"
    /\ UNCHANGED <<state, action, batch, hostUntouched>>

\* the host hands the action, as a batch of one, to VerifyBatch
HostVerifyBatch ==
    /\ pc = "host_submitted"
    /\ result' = VerdictAlone(<<action>>, GetObjectIds(state, HostIds))
    /\ pc' = "host_batch_verified"
    /\ UNCHANGED <<state, action, batch, hostUntouched>>

\* the verdict is returned
HostReturn ==
    /\ pc \in {"host_verified", "host_state_verified", "host_batch_verified"}
    /\ pc' = "host_idle"
    /\ action' = NoAction
    /\ result' = "pending"
    /\ UNCHANGED <<state, batch, hostUntouched>>

\* the host calls Execute of the oldest admitted action
HostExecute ==
    /\ pc = "host_idle"
    /\ batch # <<>>
    /\ LET r == ActionExecute(Head(batch), state, revision)
       IN  /\ state' = r.state
           /\ result' = r.err
    /\ batch' = Tail(batch)
    /\ UNCHANGED <<pc, action, hostUntouched>>

NextHost ==
    \/ HostSubmit
    \/ HostVerify
    \/ HostVerifyStateTransition
    \/ HostVerifyBatch
    \/ HostReturn
    \/ HostExecute

SpecHost == InitHost /\ [][NextHost]_vars

(***************************************************************************)
(* Properties of the object handlers and their verification                *)
(* (specification SpecHost).                                               *)
(***************************************************************************)
\* the object the handlers have stored under id and not deleted since
StoredByHandler(id) == <<111, 98, 106, 101, 99, 116, 58>> \o id \in DOMAIN state

\* C22: executing a CreateObject whose ID exists fails with ErrObjectExists
\* and leaves the stored object (its code and storage) as it was, so that an
\* ID is created again only after a DeleteObject has removed it.
C22_CreateNeverOverwrites ==
    [][(/\ pc = "host_idle"
        /\ batch # <<>>
        /\ batch' = Tail(batch)
        /\ Head(batch).kind = CreateObject
        /\ StoredByHandler(Head(batch).ID))
       => (result' = ErrObjectExists /\ state' = state)]_vars

\* the verdict of the Code Format Validator with the default tables
ValidatorVerdict(blob) == ValidateCode(NewCodeValidator(1024 * 1024), blob)

\* C26: a CreateObject whose code does not pass the Code Format Validator is
\* rejected by its verification, and no object with such a code is stored.
C26_InvalidCodeNotAdmitted ==
    /\ (pc = "host_verified" /\ action.kind = CreateObject
            /\ ValidatorVerdict(action.Code) # Nil)
        => result # Nil
    /\ \A k \in DOMAIN state : ValidatorVerdict(state[k][2].code) = Nil

\* C27: a CreateObject whose ID is empty or longer than 256 bytes is
\* rejected with ErrInvalidID by Verify, by VerifyStateTransition and by
\* VerifyBatch; an ID of 256 bytes is not rejected with ErrInvalidID.
C27_InvalidIDRejected ==
    (action.kind = CreateObject
        /\ pc \in {"host_verified", "host_state_verified",
                   "host_batch_verified"})
    => /\ (Len(action.ID) = 0 \/ Len(action.ID) > 256)
            => result = ErrInvalidID
       /\ Len(action.ID) = 256 => result # ErrInvalidID

\* C30: of an object that CreateObject has stored, VerifyStateTransition
\* rejects a further CreateObject with ErrObjectExists and does not reject a
\* SendEvent or a SetInputObject to it with ErrObjectNotFound.
C30_VerifierSeesExecutedObject ==
    (pc = "host_state_verified" /\ StoredByHandler(action.ID))
    => /\ action.kind = CreateObject => result = ErrObjectExists
       /\ action.kind \in {SendEvent, SetInputObject}
            => result # ErrObjectNotFound

(***************************************************************************)
(* The state keys of src/storage (storage.go and the contract store of     *)
(* state_manager.go) and the writes made under them.  A stored value is    *)
(* the sequence of bytes handed to mu.Insert.                              *)
(***************************************************************************)
balancePrefix == 0
heightPrefix == 1
timestampPrefix == 2
feePrefix == 3
eventPrefix == 5
inputPrefix == 6

BalanceChunks == 1

\* codec.AddressLen
AddressLen == 33

\* binary.BigEndian.PutUint16 and PutUint64, of a value below 2^31
BigEndianUint16(n) == <<(n \div 256) % 256, n % 256>>

BigEndianUint64(n) ==
    <<0, 0, 0, 0, (n \div 16777216) % 256, (n \div 65536) % 256,
      (n \div 256) % 256, n % 256>>

BalanceKey(addr) == <<balancePrefix>> \o addr \o BigEndianUint16(BalanceChunks)

HeightKey == <<heightPrefix>>

TimestampKey == <<timestampPrefix>>

FeeKey == <<feePrefix>>

ContractKey(hash) == <<contractPrefix>> \o hash

EventKey(priority, id) == <<eventPrefix>> \o BigEndianUint64(priority) \o id

InputObjectKey == <<inputPrefix>>

\* mu.Insert(ctx, k, v)
Insert(st, k, v) == MapSet(st, k, v)

MaxKeyIdLen == 2

KeyBytes == {0, 97}

\* object ids and contract checksums: byte strings
KeyIds == UNION {[1..n -> KeyBytes] : n \in 0..MaxKeyIdLen}

KeyPriorities == {0, 1, 256}

KeyAddresses == {[i \in 1..AddressLen |-> b] : b \in KeyBytes}

KeyValues == {<<1>>, <<2>>}

InitKeys ==
    /\ state = EmptyMap
    /\ action = NoAction
    /\ pc = "keys_empty"
    /\ result = "pending"
    /\ revision = "part_009"
    /\ batch = <<>>
    /\ objects = {}
    /\ idx = 0
    /\ objectModifications = EmptyMap
    /\ eventQueue = EmptyMap
    /\ failPhase = "none"
    /\ stateReads = 0
    /\ regions = EmptyMap
    /\ calls = <<>>
    /\ inputObject = ""
    /\ queuedEvents = <<>>
    /\ blockTime = 0
    /\ medianTime = 0
    /\ ValIdle

\* one more write has been made
keysAdvance ==
    /\ pc \in {"keys_empty", "keys_one"}
    /\ pc' = IF pc = "keys_empty" THEN "keys_one" ELSE "keys_two"
    /\ result' = Nil
    /\ UNCHANGED <<batch, hostUntouched>>

\* storage.SetObject, v the marshalled object
SetObject ==
    /\ \E id \in KeyIds, v \in KeyValues :
        /\ state' = Insert(state, ObjectKey(id), v)
        /\ action' = [kind |-> "object", key |-> ObjectKey(id)]
    /\ keysAdvance

\* storage.StoreContract
StoreContract ==
    /\ \E checksum \in KeyIds, blob \in KeyValues :
        /\ state' = Insert(state, ContractKey(checksum), blob)
        /\ action' = [kind |-> "contract", key |-> ContractKey(checksum)]
    /\ keysAdvance

\* storage.QueueEvent, v the marshalled event
QueueEvent ==
    /\ \E p \in KeyPriorities, id \in KeyIds, v \in KeyValues :
        /\ state' = Insert(state, EventKey(p, id), v)
        /\ action' = [kind |-> "event", key |-> EventKey(p, id)]
    /\ keysAdvance

\* storage.SetInputObject
StorageSetInputObject ==
    /\ \E id \in KeyIds \ {<<>>} :
        /\ state' = Insert(state, InputObjectKey, id)
        /\ action' = [kind |-> "input", key |-> InputObjectKey]
    /\ keysAdvance

\* storage.SetBalance, v the 8 bytes of the balance
SetBalance ==
    /\ \E addr \in KeyAddresses, n \in KeyPriorities :
        /\ state' = Insert(state, BalanceKey(addr), BigEndianUint64(n))
        /\ action' = [kind |-> "balance", key |-> BalanceKey(addr)]
    /\ keysAdvance

\* the chain writing its height, timestamp or fee state
SetChainState ==
    /\ \E k \in {HeightKey, TimestampKey, FeeKey}, n \in KeyPriorities :
        /\ state' = Insert(state, k, BigEndianUint64(n))
        /\ action' = [kind |-> "chain", key |-> k]
    /\ keysAdvance

NextKeys ==
    \/ SetObject
    \/ StoreContract
    \/ QueueEvent
    \/ StorageSetInputObject
    \/ SetBalance
    \/ SetChainState

SpecKeys == InitKeys /\ [][NextKeys]_vars

(***************************************************************************)
(* Properties of the state keys (specification SpecKeys).                  *)
(***************************************************************************)
\* the keys of each kind, over the ids, checksums, priorities and addresses
KeysOfKind ==
    [object |-> {ObjectKey(id) : id \in KeyIds},
     contract |-> {ContractKey(h) : h \in KeyIds},
     event |-> {EventKey(p, id) : p \in KeyPriorities, id \in KeyIds},
     input |-> {InputObjectKey},
     balance |-> {BalanceKey(a) : a \in KeyAddresses},
     chain |-> {HeightKey, TimestampKey, FeeKey}]

\* the value read under key k is the same before and after the step
SameRead(k) ==
    /\ (k \in DOMAIN state') = (k \in DOMAIN state)
    /\ (k \in DOMAIN state /\ k \in DOMAIN state') => state'[k] = state[k]

\* C28: keys of different kinds are distinct, so that a write under a key of
\* one kind leaves the value read under every key of another kind as it was.
C28_KindsNeverCollide ==
    [][pc' # pc =>
        \A kind \in DOMAIN KeysOfKind \ {action'.kind} :
            \A k \in KeysOfKind[kind] : k # action'.key /\ SameRead(k)]_vars

(***************************************************************************)
(* Properties of TEEExecAction.Execute as a whole (specification           *)
(* SpecTEEExec).                                                           *)
(***************************************************************************)
\* one of the checks an execution has to pass does not hold of the action
TEECheckFails ==
    \/ Key(<<"region", action.RegionID>>) \notin DOMAIN state
    \/ Key(<<"enclave", action.RegionID, action.EnclaveID>>)
            \notin DOMAIN state
    \/ state[Key(<<"enclave", action.RegionID, action.EnclaveID>>)] # <<1>>
    \/ action.TEESig # Signed
    \/ Len(action.TimeStamps) < 3
    \/ \E i \in DOMAIN action.TimeStamps :
            action.TimeStamps[i].Signature # Signed
    \/ Distance(LowerMedian(StampTimesOf(action)), blockTime) > 300

\* no state-update key and no event key is stored
NoKeyWritten == \A k \in DOMAIN state : k[1] \notin {"state", "event"}

\* C21: an execution of which a check fails (region, enclave, TEE
\* signature, stamp count, stamp signature, staleness) returns an error and
\* writes no state key; the writes begin only when every check holds.
C21_NoPartialApplication ==
    /\ (pc = "tee_done" /\ TEECheckFails)
        => result # Nil /\ NoKeyWritten
    /\ pc = "tee_write" => ~TEECheckFails

(***************************************************************************)
(* Properties of the Code Format Validator (specification SpecValidator).  *)
(***************************************************************************)
\* the blob handed to ValidateCode is within the size limit, holds a whole
\* header and begins with the magic constant
HasValidHeader ==
    /\ Len(code) <= cv.maxSize
    /\ Len(code) >= 16
    /\ \A i \in 1..8 : code[i] = <<0, 83, 72, 85, 84, 84, 76, 69>>[i]

\* the capability table has an entry for TEE type t that lists format f
Lists(t, f) ==
    /\ t \in DOMAIN cv.teeFormats
    /\ f \in {cv.teeFormats[t][i] : i \in 1..Len(cv.teeFormats[t])}

\* the capability table is the one the constructor fills
DefaultTables == cv.teeFormats = (1 :> <<2>> @@ 2 :> <<2, 3>>)

\* the body of the blob begins with the 8-byte wasm magic
CarriesWasmMagic ==
    /\ Len(code) >= 24
    /\ \A i \in 1..8 : code[16 + i] = <<0, 97, 115, 109, 1, 0, 0, 0>>[i]

\* C23: of a blob with a valid header, a format id without a registered
\* validator gives ErrUnsupportedFormat whatever the TEE-type byte; a
\* registered format the TEE-type is not registered as supporting (also a
\* TEE-type without an entry) gives ErrInvalidTEEFormat; with the default
\* tables a wasm blob with the wasm magic is accepted for SGX and a
\* custom-format blob is rejected for SGX.
C23_FormatThenCapability ==
    (pc = "cv_done" /\ revision = "part_002" /\ HasValidHeader) =>
        /\ code[9] \notin {1, 2, 3} => result = ErrUnsupportedFormat
        /\ (code[9] \in {1, 2, 3} /\ ~Lists(code[11], code[9]))
            => result = ErrInvalidTEEFormat
        /\ (DefaultTables /\ code[9] = 2 /\ code[11] = 1 /\ CarriesWasmMagic)
            => result = Nil
        /\ (DefaultTables /\ code[9] = 3 /\ code[11] = 1) => result # Nil

\* a blob of a registered format whose TEE-type has no capability entry is
\* rejected with ErrInvalidTEEFormat
C23_Witness ==
    /\ pc = "cv_done"
    /\ revision = "part_002"
    /\ HasValidHeader
    /\ code[9] = 2
    /\ CarriesWasmMagic
    /\ code[11] \notin DOMAIN cv.teeFormats
    /\ result = ErrInvalidTEEFormat

\* C24: a blob longer than the configured maximum gives ErrCodeTooLarge
\* whatever it contains; otherwise a blob shorter than 16 bytes or one whose
\* first 8 bytes are not the magic constant gives ErrInvalidHeader (so that
\* no such blob is handed to a format validator or the capability check).
C24_SizeThenHeader ==
    pc = "cv_done" =>
        /\ Len(code) > cv.maxSize => result = ErrCodeTooLarge
        /\ (Len(code) <= cv.maxSize /\ ~HasValidHeader)
            => result = ErrInvalidHeader

\* a blob over the limit that does not begin with the magic constant is
\* reported as too large
C24_Witness ==
    /\ pc = "cv_done"
    /\ Len(code) > cv.maxSize
    /\ Len(code) >= 16
    /\ code[1] # 0
    /\ result = ErrCodeTooLarge

\* C25: a blob whose format byte is the raw format is accepted for no
\* TEE-type, whatever capability entries have been registered before.
C25_RawNeverAccepted ==
    (pc = "cv_done" /\ revision = "part_002"
        /\ Len(code) >= 9 /\ code[9] = 1) => result # Nil

\* a well-formed raw blob for a TEE-type whose entry lists the raw format is
\* rejected
C25_Witness ==
    /\ pc = "cv_done"
    /\ revision = "part_002"
    /\ HasValidHeader
    /\ code[9] = 1
    /\ Len(code) > 16
    /\ Lists(code[11], 1)
    /\ result = ErrInvalidTEEFormat

(***************************************************************************)
(* Properties of UpdateRegionAction.Execute over sequences of region       *)
(* actions (specification SpecRegionExec).                                 *)
(***************************************************************************)
\* C29: a successful UpdateRegion that removes address t and does not add
\* it leaves the region's stored TEE list without t, whatever region
\* actions were executed before.
C29_RemovedTEEAbsent ==
    [][(/\ pc = "region_execute"
        /\ action.kind = UpdateRegion
        /\ result' = Nil)
       => \A t \in Elems(action.RemTEEs) \ Elems(action.AddTEEs) :
            t \notin Elems(regions'[action.RegionID])]_vars

====
